---------------------------- MODULE Spec2Model ----------------------------
(***************************************************************************)
(* A model of the polluted-cities service: the aggregation engine          *)
(* (CityService.getMostPollutedByCountry), the bounded TTL/LRU caches, the *)
(* rate-limited authenticated client of the measurement source             *)
(* (PolluApiClient) and the batched validation client of the knowledge     *)
(* source (WikipediaClient.getSummaries).                                  *)
(*                                                                         *)
(* Text is modelled as a sequence of characters.  A character is a one-    *)
(* character string; a letter carrying a diacritic is written as its base  *)
(* letter followed by a mark ("o'" is o-acute, "z'" is z-acute, "u:" is    *)
(* u-diaeresis, "l/" is l-stroke), and counts as ONE character.            *)
(***************************************************************************)
EXTENDS Integers, Sequences, FiniteSets, TLC

-----------------------------------------------------------------------------
(* Characters                                                              *)

LOWERS ==
    << "a","b","c","d","e","f","g","h","i","j","k","l","m",
       "n","o","p","q","r","s","t","u","v","w","x","y","z",
       "o'","z'","u:","l/" >>

UPPERS ==
    << "A","B","C","D","E","F","G","H","I","J","K","L","M",
       "N","O","P","Q","R","S","T","U","V","W","X","Y","Z",
       "O'","Z'","U:","L/" >>

AsciiLetters ==
    { LOWERS[i] : i \in 1..26 } \cup { UPPERS[i] : i \in 1..26 }

DigitChars == { "0","1","2","3","4","5","6","7","8","9" }

\* \p{L}
IsLetter(c) == \E i \in 1..Len(LOWERS) : c = LOWERS[i] \/ c = UPPERS[i]

\* \p{N} and \d
IsDigit(c) == c \in DigitChars

\* \s
IsSpace(c) == c = " "

\* \w, which decides \b: the ASCII letters, the digits and the underscore
IsWordChar(c) == c \in AsciiLetters \/ c \in DigitChars \/ c = "_"

\* String.prototype.toLowerCase, one character
LowerChar(c) ==
    IF \E i \in 1..Len(UPPERS) : UPPERS[i] = c
    THEN LOWERS[CHOOSE i \in 1..Len(UPPERS) : UPPERS[i] = c]
    ELSE c

\* String.prototype.toUpperCase, one character
UpperChar(c) ==
    IF \E i \in 1..Len(LOWERS) : LOWERS[i] = c
    THEN UPPERS[CHOOSE i \in 1..Len(LOWERS) : LOWERS[i] = c]
    ELSE c

ToLower(s) == [i \in 1..Len(s) |-> LowerChar(s[i])]

-----------------------------------------------------------------------------
(* Sequences                                                               *)

RECURSIVE Filter(_, _)
\* the characters of s that belong to keep, in order
Filter(keep, s) ==
    IF s = <<>> THEN <<>>
    ELSE (IF Head(s) \in keep THEN <<Head(s)>> ELSE <<>>) \o Filter(keep, Tail(s))

RECURSIVE TrimLeft(_)
TrimLeft(s) ==
    IF s # <<>> /\ IsSpace(Head(s)) THEN TrimLeft(Tail(s)) ELSE s

RECURSIVE TrimRight(_)
TrimRight(s) ==
    IF s # <<>> /\ IsSpace(s[Len(s)])
    THEN TrimRight(SubSeq(s, 1, Len(s) - 1))
    ELSE s

\* String.prototype.trim
Trim(s) == TrimRight(TrimLeft(s))

RECURSIVE CollapseSpaces(_)
\* s.replace(/\s+/g, " ")
CollapseSpaces(s) ==
    IF Len(s) < 2 THEN s
    ELSE IF IsSpace(s[1]) /\ IsSpace(s[2]) THEN CollapseSpaces(Tail(s))
    ELSE <<s[1]>> \o CollapseSpaces(Tail(s))

\* whether w occurs in s starting at position i
MatchAt(s, i, w) ==
    /\ i >= 1
    /\ i + Len(w) - 1 <= Len(s)
    /\ \A k \in 1..Len(w) : s[i + k - 1] = w[k]

\* the characters of s from position i to the end
From(s, i) == SubSeq(s, i, Len(s))

RECURSIVE SplitOn(_, _)
\* s.split(" "): the pieces between single spaces (empty pieces kept)
SplitOn(s, acc) ==
    IF s = <<>> THEN <<acc>>
    ELSE IF IsSpace(Head(s)) THEN <<acc>> \o SplitOn(Tail(s), <<>>)
    ELSE SplitOn(Tail(s), Append(acc, Head(s)))

-----------------------------------------------------------------------------
(* asciiFold                                                               *)

\* PRE_MAP, then NFKD, then the combining marks dropped: one character
FoldChar(c) ==
    CASE c = "l/" -> "l"
      [] c = "L/" -> "L"
      [] c = "o'" -> "o"
      [] c = "O'" -> "O"
      [] c = "z'" -> "z"
      [] c = "Z'" -> "Z"
      [] c = "u:" -> "u"
      [] c = "U:" -> "U"
      [] OTHER -> c

\* what removePunctuation keeps: letters, numbers, whitespace and the hyphen
KeptByRemovePunctuation(c) ==
    IsLetter(c) \/ IsDigit(c) \/ IsSpace(c) \/ c = "-"

\* asciiFold(input, { removePunctuation })
asciiFold(input, removePunctuation) ==
    LET folded == [i \in 1..Len(input) |-> FoldChar(input[i])]
        chars  == { folded[i] : i \in 1..Len(folded) }
        kept   == IF removePunctuation
                  THEN Filter({ c \in chars : KeptByRemovePunctuation(c) }, folded)
                  ELSE folded
    IN  Trim(CollapseSpaces(kept))

\* cityKey(name, country): `${asciiFold(name).toLowerCase()}|${country}`
cityKey(name, country) == << ToLower(asciiFold(name, TRUE)), country >>

-----------------------------------------------------------------------------
(* cityFilter: the vocabularies                                            *)

DIR ==
    << <<"n","o","r","t","h">>,
       <<"s","o","u","t","h">>,
       <<"e","a","s","t">>,
       <<"w","e","s","t">>,
       <<"n","o","r","t","h","e","a","s","t">>,
       <<"n","o","r","t","h","w","e","s","t">>,
       <<"s","o","u","t","h","e","a","s","t">>,
       <<"s","o","u","t","h","w","e","s","t">> >>

FACILITY ==
    << <<"a","i","r","p","o","r","t">>,
       <<"s","t","a","t","i","o","n">>,
       <<"t","e","r","m","i","n","a","l">>,
       <<"h","a","r","b","o","r">>,
       <<"h","a","r","b","o","u","r">>,
       <<"p","o","r","t">>,
       <<"m","e","t","r","o">>,
       <<"r","a","i","l","w","a","y">>,
       <<"b","u","s">>,
       <<"p","o","w","e","r"," ","p","l","a","n","t">>,
       <<"r","e","f","i","n","e","r","y">>,
       <<"m","i","n","e">>,
       <<"i","n","d","u","s","t","r","i","a","l">>,
       <<"z","o","n","e">>,
       <<"p","a","r","k">>,
       <<"b","r","i","d","g","e">>,
       <<"d","a","m">>,
       <<"f","a","c","t","o","r","y">>,
       <<"p","l","a","n","t">>,
       <<"w","o","r","k","s">>,
       <<"d","e","p","o","t">>,
       <<"y","a","r","d">>,
       <<"s","t","a","d","i","u","m">>,
       <<"a","r","e","n","a">>,
       <<"m","a","l","l">>,
       <<"m","a","r","k","e","t">>,
       <<"p","l","a","z","a">>,
       <<"c","a","m","p","u","s">>,
       <<"u","n","i","v","e","r","s","i","t","y">>,
       <<"c","o","l","l","e","g","e">>,
       <<"h","o","s","p","i","t","a","l">>,
       <<"c","l","i","n","i","c">> >>

ADMIN ==
    << <<"s","t","a","t","e">>,
       <<"p","r","o","v","i","n","c","e">>,
       <<"r","e","g","i","o","n">>,
       <<"c","o","u","n","t","y">>,
       <<"d","i","s","t","r","i","c","t">>,
       <<"p","r","e","f","e","c","t","u","r","e">>,
       <<"m","u","n","i","c","i","p","a","l","i","t","y">>,
       <<"c","o","m","m","u","n","e">>,
       <<"a","r","r","o","n","d","i","s","s","e","m","e","n","t">>,
       <<"b","o","r","o","u","g","h">>,
       <<"c","a","n","t","o","n">>,
       <<"p","a","r","i","s","h">>,
       <<"d","i","v","i","s","i","o","n">>,
       <<"w","a","r","d">>,
       <<"z","o","n","e">> >>

NON_CITY_LOCALITY ==
    << <<"v","i","l","l","a","g","e">>,
       <<"h","a","m","l","e","t">>,
       <<"s","u","b","u","r","b">>,
       <<"n","e","i","g","h","b","o","u","r","h","o","o","d">>,
       <<"n","e","i","g","h","b","o","r","h","o","o","d">>,
       <<"s","e","c","t","o","r">>,
       <<"b","l","o","c","k">>,
       <<"p","h","a","s","e">>,
       <<"q","u","a","r","t","e","r">>,
       <<"c","o","l","o","n","y">>,
       <<"t","o","w","n","s","h","i","p">> >>

PLACEHOLDER ==
    << <<"u","n","k","n","o","w","n">>,
       <<"n","/","a">>,
       <<"n","u","l","l">>,
       <<"t","e","s","t">>,
       <<"s","a","m","p","l","e">>,
       <<"a","r","e","a">> >>

CITY_WORDS ==
    << <<"c","i","t","y">>,
       <<"c","a","p","i","t","a","l">>,
       <<"m","e","t","r","o","p","o","l","i","s">>,
       <<"m","u","n","i","c","i","p","a","l","i","t","y">> >>

\* the particles handleLocaleSpecificCases lowercases: at a word start the
\* alternation de|del|de\s+la|... always ends on its first two alternatives
PARTICLES_ES == << <<"d","e">>, <<"d","e","l">> >>

PARTICLES_FR ==
    << <<"d","e">>, <<"d","u">>, <<"d","e","s">>, <<"l","e">>, <<"l","a">>,
       <<"l","e","s">>, <<"s","u","r">>, <<"s","o","u","s">>, <<"e","n">>,
       <<"a","u">>, <<"a","u","x">> >>

Range(f) == { f[i] : i \in DOMAIN f }

-----------------------------------------------------------------------------
(* cityFilter: the helpers                                                 *)

\* const normalize = s.normalize("NFKC").replace(/\s+/g, " ").trim()
normalize(s) == Trim(CollapseSpaces(s))

\* \b between positions i - 1 and i of s
BoundaryAt(s, i) ==
    LET before == i - 1 >= 1 /\ i - 1 <= Len(s) /\ IsWordChar(s[i - 1])
        after  == i >= 1 /\ i <= Len(s) /\ IsWordChar(s[i])
    IN  before # after

\* new RegExp(`\\b${w}\\b`, "iu").test(s) for some w of words
hasWord(s, words) ==
    \E w \in Range(words) : \E i \in 1..Len(s) :
        /\ MatchAt(ToLower(s), i, w)
        /\ BoundaryAt(s, i)
        /\ BoundaryAt(s, i + Len(w))

hasDigits(s) == \E i \in 1..Len(s) : IsDigit(s[i])

hasBadSymbols(s) ==
    \E i \in 1..Len(s) : s[i] \in { "@", "/", "_", "#", "|", "\\" }

mostlyNonLetters(s) ==
    LET letters == Cardinality({ i \in 1..Len(s) : IsLetter(s[i]) })
    IN  letters = 0 \/ 2 * letters < Len(s)

\* the positions q of a "(" that /\(([^)]+)\)\s*$/ can start at
ParenStarts(s) ==
    { q \in 1..Len(s) :
        /\ s[q] = "("
        /\ \E j \in (q + 2)..Len(s) :
              /\ s[j] = ")"
              /\ \A k \in (q + 1)..(j - 1) : s[k] # ")"
              /\ \A k \in (j + 1)..Len(s) : IsSpace(s[k]) }

Min(S) == CHOOSE x \in S : \A y \in S : x <= y

\* stripParen: "Name (District)" -> "Name"
stripParen(s) ==
    IF ParenStarts(s) = {} THEN Trim(s)
    ELSE Trim(SubSeq(s, 1, Min(ParenStarts(s)) - 1))

\* how far back from position d the prefix \s*[-]?\s* of the directional
\* pattern reaches: the leftmost position the match can start at
DirectionalStart(s, d) ==
    LET SpacesBack(p) ==
            LET n == Cardinality({ k \in 1..(p - 1) :
                        \A m \in k..(p - 1) : IsSpace(s[m]) })
            IN  p - n
        p1 == SpacesBack(d)
        p2 == IF p1 > 1 /\ s[p1 - 1] = "-" THEN p1 - 1 ELSE p1
    IN  IF p2 < p1 THEN SpacesBack(p2) ELSE p1

\* the starts of the matches of /\s*[-]?\s*(?:north|...)\b\.?$/iu in s
DirectionalStarts(s) ==
    { DirectionalStart(s, d) : d \in
        { d \in 1..Len(s) : \E w \in Range(DIR) :
            /\ MatchAt(ToLower(s), d, w)
            /\ \/ d + Len(w) - 1 = Len(s)
               \/ d + Len(w) = Len(s) /\ s[Len(s)] = "." } }

\* stripDirectional: a trailing "-East" and the like
stripDirectional(s) ==
    IF DirectionalStarts(s) = {} THEN Trim(s)
    ELSE Trim(SubSeq(s, 1, Min(DirectionalStarts(s)) - 1))

\* the number of whitespace characters of s from position i on
SpacesFrom(s, i) ==
    Cardinality({ k \in i..Len(s) : \A m \in i..k : IsSpace(s[m]) })

\* the number of whitespace characters of s up to position i
SpacesUpTo(s, i) ==
    Cardinality({ k \in 1..i : \A m \in k..i : IsSpace(s[m]) })

\* salvageCityOf: "City of X" and "X City"
salvageCityOf(s) ==
    LET low == ToLower(s)
        of  == <<"o","f">>
        \* ^(?:city|...)\s+of\s+(.+)$ : where (.+) starts, 0 for no match
        OfRest(w) ==
            LET a == Len(w) + 1
                b == a + SpacesFrom(s, a)
                c == b + Len(of)
                e == c + SpacesFrom(s, c)
            IN  IF /\ MatchAt(low, 1, w) /\ b > a /\ MatchAt(low, b, of)
                   /\ e > c /\ e <= Len(s)
                THEN e ELSE 0
        \* ^(.+?)\s+(?:city|...)$ : where (.+?) ends, 0 for no match
        PostEnd(w) ==
            LET a == Len(s) - Len(w) + 1
                n == IF a >= 2 THEN SpacesUpTo(s, a - 1) ELSE 0
            IN  IF MatchAt(low, a, w) /\ n >= 1 /\ a - 1 - n >= 1
                THEN a - 1 - n ELSE 0
        ofs   == { OfRest(w) : w \in Range(CITY_WORDS) } \ {0}
        posts == { PostEnd(w) : w \in Range(CITY_WORDS) } \ {0}
    IN  IF ofs # {} THEN Trim(From(s, Min(ofs)))
        ELSE IF posts # {} THEN Trim(SubSeq(s, 1, Min(posts)))
        ELSE s

-----------------------------------------------------------------------------
(* nameCase and cityFilter                                                 *)

\* localeMap[locale] || locale.toLowerCase()
NormalizedLocale(locale) ==
    CASE locale \in { "PL", "pl" } -> "pl"
      [] locale \in { "DE", "de" } -> "de"
      [] locale \in { "ES", "es" } -> "es"
      [] locale \in { "FR", "fr" } -> "fr"
      [] OTHER -> locale

\* result.replace(/\b(de|del|...)\b/g, (m, particle) => particle.toLowerCase())
handleLocaleSpecificCases(input, locale) ==
    LET particles == CASE locale = "es" -> PARTICLES_ES
                       [] locale = "fr" -> PARTICLES_FR
                       [] OTHER -> <<>>
        \* the regular expression has no i flag: it matches lowercase text only
        InMatch(i) ==
            \E w \in Range(particles) : \E a \in 1..i :
                /\ i < a + Len(w)
                /\ MatchAt(input, a, w)
                /\ BoundaryAt(input, a)
                /\ BoundaryAt(input, a + Len(w))
    IN  [i \in 1..Len(input) |->
            IF InMatch(i) THEN LowerChar(input[i]) ELSE input[i]]

\* the separators of toNameCase's /(^|[\p{Zs}\p{Pd}''/()\.])(\p{L})/gu
IsNameSeparator(c) == c \in { " ", "-", "'", "/", "(", ")", "." }

\* toNameCase(input, locale)
toNameCase(input, locale) ==
    LET loc == NormalizedLocale(locale)
        s   == handleLocaleSpecificCases(ToLower(input), loc)
    IN  [i \in 1..Len(s) |->
            IF IsLetter(s[i]) /\ (i = 1 \/ IsNameSeparator(s[i - 1]))
            THEN UpperChar(s[i]) ELSE s[i]]

\* name.toLowerCase().replace(/(^|\s|[-''])/gu, (m) => m.toUpperCase()):
\* what is matched, and uppercased, is the separator itself
SimpleTitleCase(name) ==
    LET s == ToLower(name)
    IN  [i \in 1..Len(s) |->
            IF IsSpace(s[i]) \/ s[i] \in { "-", "'" }
            THEN UpperChar(s[i]) ELSE s[i]]

\* baseName(raw, locale): { base, changed, quals }
baseName(raw, locale) ==
    LET before     == normalize(raw)
        hadParen   == ParenStarts(before) # {}
        afterParen == IF hadParen THEN stripParen(before) ELSE before
        afterDir   == stripDirectional(afterParen)
        afterCity  == salvageCityOf(afterDir)
        name       == toNameCase(SimpleTitleCase(afterCity), locale)
    IN  [ base    |-> name,
          changed |-> name # before,
          quals   |-> (IF hadParen THEN <<"paren">> ELSE <<>>)
                      \o (IF afterDir # afterParen THEN <<"direction">> ELSE <<>>)
                      \o (IF afterCity # afterDir THEN <<"city-noun">> ELSE <<>>) ]

looksLikeFacilityOrAdmin(s) ==
    LET low == ToLower(s)
    IN  \/ hasWord(low, PLACEHOLDER) /\ hasDigits(low)
        \/ hasWord(low, FACILITY)
        \/ hasWord(low, ADMIN)
        \/ hasWord(low, NON_CITY_LOCALITY)
        \/ hasDigits(low) /\ (hasWord(low, FACILITY) \/ hasWord(low, ADMIN))

\* the length limits of classify
MIN_LENGTH == 2

MAX_LENGTH == 64

\* a reject verdict of classify; a confidence is given in tenths
Rejected(why, english) ==
    [ verdict |-> "reject", city |-> <<>>, englishCity |-> english,
      reason |-> <<why, <<>>>>, confidence |-> 10 ]

\* a keep or salvage verdict of classify
Accepted(v, base, english, why, tags, conf) ==
    [ verdict |-> v, city |-> base, englishCity |-> english,
      reason |-> <<why, tags>>, confidence |-> conf ]

\* classify from the length check on, given the base name b of the
\* normalized name and its folding
classifyBase(original, b, englishBase) ==
    IF Len(b.base) < MIN_LENGTH \/ Len(b.base) > MAX_LENGTH
    THEN Rejected("length", englishBase)
    ELSE IF looksLikeFacilityOrAdmin(original)
    THEN IF looksLikeFacilityOrAdmin(b.base) \/ hasDigits(b.base)
         THEN Rejected("facility/admin", englishBase)
         ELSE Accepted("salvage", b.base, englishBase, "salvaged",
                       IF b.quals = <<>> THEN <<"qualifier">> ELSE b.quals, 7)
    ELSE IF hasDigits(b.base) THEN Rejected("digits", englishBase)
    ELSE IF ~b.changed
    THEN Accepted("keep", b.base, englishBase, "heuristic", <<>>, 9)
    ELSE Accepted("salvage", b.base, englishBase, "normalized", b.quals, 7)

\* classify from the shape checks on, given the normalized name
classifyNormalized(original, locale, b) ==
    IF original = <<>> THEN Rejected("empty", asciiFold(original, TRUE))
    ELSE IF hasBadSymbols(original) \/ mostlyNonLetters(original)
    THEN Rejected("bad-shape", asciiFold(original, TRUE))
    ELSE classifyBase(original, b, asciiFold(b.base, TRUE))

\* classify(raw, locale)
classify(rawName, locale) ==
    classifyNormalized(normalize(rawName), locale,
                       baseName(normalize(rawName), locale))

\* a parsePollution that lets every value through
parsePollutionAny(v) == [ null |-> FALSE, value |-> v.value ]

\* const parsePollution = (v) =>
\*   typeof v === "number" && Number.isFinite(v) && v >= 0 ? v : null
\* a raw value is [number |-> is a finite number, value |-> the number]
parsePollution(v) ==
    IF v.number /\ v.value >= 0
    THEN [ null |-> FALSE, value |-> v.value ]
    ELSE [ null |-> TRUE, value |-> 0 ]

-----------------------------------------------------------------------------
(* The values of JavaScript that are no text and no object                 *)

Null == [ null |-> TRUE ]

Undefined == [ undefined |-> TRUE ]

-----------------------------------------------------------------------------
(* cache.service: LRUCache, a Map in insertion order, oldest first         *)

\* the position of key in the map, 0 when it holds no such key
IndexOfKey(cache, key) ==
    IF \E i \in 1..Len(cache) : cache[i].key = key
    THEN CHOOSE i \in 1..Len(cache) : cache[i].key = key
    ELSE 0

\* this.cache.delete(key)
MapDelete(cache, key) ==
    LET i == IndexOfKey(cache, key)
    IN  IF i = 0 THEN cache
        ELSE SubSeq(cache, 1, i - 1) \o SubSeq(cache, i + 1, Len(cache))

\* a get that moves the time of the entry forward when it finds it
LRUGetSliding(cache, key, t) ==
    LET i == IndexOfKey(cache, key)
    IN  IF i = 0 THEN [ cache |-> cache, value |-> Null ]
        ELSE IF t - cache[i].timestamp > cache[i].ttl
        THEN [ cache |-> MapDelete(cache, key), value |-> Null ]
        ELSE [ cache |-> Append(MapDelete(cache, key),
                                [ cache[i] EXCEPT !.timestamp = t ]),
               value |-> cache[i].data ]

\* LRUCache.get(key) at time t: the map afterwards and the value returned
LRUGet(cache, key, t) ==
    LET i == IndexOfKey(cache, key)
    IN  IF i = 0 THEN [ cache |-> cache, value |-> Null ]
        ELSE IF t - cache[i].timestamp > cache[i].ttl
        THEN [ cache |-> MapDelete(cache, key), value |-> Null ]
        ELSE [ cache |-> Append(MapDelete(cache, key), cache[i]),
               value |-> cache[i].data ]

\* LRUCache.set(key, data, ttl) at time t on a cache bounded at maxSize;
\* if (firstKey) this.cache.delete(firstKey): the key "" is not deleted
LRUSet(cache, key, data, ttl, t, maxSize) ==
    LET put == Append(MapDelete(cache, key),
                      [ key |-> key, data |-> data, timestamp |-> t, ttl |-> ttl ])
    IN  IF Len(put) > maxSize /\ Head(put).key # <<>> THEN Tail(put) ELSE put

\* CACHE_CONFIG, times in milliseconds
POLLUTION_TTL == 300000

WIKIPEDIA_TTL == 86400000

COUNTRY_TTL == 7200000

WIKI_FAILURE_TTL == 300000

POLLUTION_CACHE_SIZE == 500

WIKIPEDIA_CACHE_SIZE == 1000

COUNTRY_CACHE_SIZE == 50

\* CacheService.getPollutionPage: the key is `${country}:${page}:${limit}`
getPollutionPage(cache, country, page, limit, t) ==
    LRUGet(cache, <<country, page, limit>>, t)

\* a setPollutionPage that stores nothing
setPollutionPageSkipped(cache, country, page, limit, data, t) == cache

\* CacheService.setPollutionPage
setPollutionPage(cache, country, page, limit, data, t) ==
    LRUSet(cache, <<country, page, limit>>, data, POLLUTION_TTL, t,
           POLLUTION_CACHE_SIZE)

\* CacheService.getWikiDescription: result === null ? undefined : result
getWikiDescription(cache, title, t) ==
    LET r == LRUGet(cache, title, t)
    IN  [ cache |-> r.cache,
          value |-> IF r.value = Null THEN Undefined ELSE r.value ]

\* CacheService.setWikiDescription
setWikiDescription(cache, title, description, ttl, t) ==
    LRUSet(cache, title, description, ttl, t, WIKIPEDIA_CACHE_SIZE)

RECURSIVE FoldLeft(_, _, _)
\* s.reduce(Op, acc)
FoldLeft(Op(_, _), acc, s) ==
    IF s = <<>> THEN acc
    ELSE LET next == Op(acc, Head(s))
         IN  IF next = next THEN FoldLeft(Op, next, Tail(s)) ELSE next

\* CacheService.getWikiDescriptionsBatch: the map afterwards and, title by
\* title, what was found
getWikiDescriptionsBatch(cache, titles, t) ==
    LET Step(acc, title) ==
            LET one == getWikiDescription(acc.cache, title, t)
            IN  [ cache |-> one.cache,
                  found |-> Append(acc.found,
                                   [ title |-> title, value |-> one.value ]) ]
    IN  FoldLeft(Step, [ cache |-> cache, found |-> <<>> ], titles)

\* CacheService.getCountryCache
getCountryCache(cache, country, t) == LRUGet(cache, country, t)

\* CacheService.setCountryCache
setCountryCache(cache, country, data, t) ==
    LRUSet(cache, country, data, COUNTRY_TTL, t, COUNTRY_CACHE_SIZE)

-----------------------------------------------------------------------------
(* A Map of JavaScript: its keys in insertion order and their values       *)

EmptyMap == [ keys |-> <<>>, val |-> <<>> ]

MapHas(m, k) == \E i \in 1..Len(m.keys) : m.keys[i] = k

\* Map.prototype.get, Undefined for a key the map does not hold
MapGet(m, k) ==
    IF MapHas(m, k)
    THEN m.val[CHOOSE i \in 1..Len(m.keys) : m.keys[i] = k]
    ELSE Undefined

\* Map.prototype.set: a key already held keeps its place
MapSet(m, k, v) ==
    IF MapHas(m, k)
    THEN [ keys |-> m.keys,
           val  |-> [i \in 1..Len(m.keys) |->
                        IF m.keys[i] = k THEN v ELSE m.val[i]] ]
    ELSE [ keys |-> Append(m.keys, k), val |-> Append(m.val, v) ]

-----------------------------------------------------------------------------
(* wikipedia.client: the validation heuristics.  An extract and a category *)
(* title are sequences of tokens: words and punctuation marks.             *)

PunctuationTokens == { ".", "!", "?", ",", "(", ")", ";", ":" }

\* [a-z-]+ under the i flag: a word of ASCII letters and hyphens
IsPlainWord(t) == t \notin PunctuationTokens /\ t \notin { " ", "" }

INTRO_VERBS == { "is", "was", "are", "were" }

INTRO_ARTICLES == { "a", "an", "the" }

\* the head nouns of NEG_INTRO
NEG_HEADS ==
    { <<"district">>, <<"county">>, <<"province">>, <<"region">>, <<"suburb">>,
      <<"neighbourhood">>, <<"neighborhood">>, <<"borough">>, <<"ward">>,
      <<"township">>, <<"village">>, <<"hamlet">>, <<"airport">>,
      <<"railway", "station">>, <<"metro", "station">>, <<"university">>,
      <<"power", "plant">>, <<"power", "station">>, <<"park">>, <<"lake">>,
      <<"river">> }

\* the head nouns of POS_INTRO
POS_HEADS ==
    { <<"city">>, <<"capital">>, <<"metropolis">>, <<"municipality">>,
      <<"independent", "city">>, <<"city-state">>, <<"city", "state">>,
      <<"city-county">>, <<"city", "county">> }

\* /\b(is|was|are|were)\s+(?:an?|the)\s+(?:[a-z-]+\s+){0,4}(heads)\b/i
IntroMatches(intro, heads) ==
    \E i \in 1..Len(intro) : \E k \in 0..4 : \E h \in heads :
        /\ i + 1 + k + Len(h) <= Len(intro)
        /\ intro[i] \in INTRO_VERBS
        /\ intro[i + 1] \in INTRO_ARTICLES
        /\ \A j \in 1..k : IsPlainWord(intro[i + 1 + j])
        /\ MatchAt(intro, i + 2 + k, h)

RECURSIVE DropParens(_, _)
\* s.replace(/\([^)]*\)/g, " "): inside is whether a "(" is open
DropParens(s, inside) ==
    IF s = <<>> THEN <<>>
    ELSE IF inside
    THEN DropParens(Tail(s), Head(s) # ")")
    ELSE IF Head(s) = "(" /\ \E i \in 2..Len(s) : s[i] = ")"
    THEN DropParens(Tail(s), TRUE)
    ELSE <<Head(s)>> \o DropParens(Tail(s), FALSE)

RECURSIVE UpToTerminator(_)
\* noParens.match(/^[^.!?]+/)
UpToTerminator(s) ==
    IF s = <<>> \/ Head(s) \in { ".", "!", "?" } THEN <<>>
    ELSE <<Head(s)>> \o UpToTerminator(Tail(s))

firstSentence(s) ==
    LET noParens == Trim(DropParens(s, FALSE))
        m        == UpToTerminator(noParens)
    IN  Trim(IF m # <<>> THEN m ELSE noParens)

\* CAT_ALLOW: the words of a category title after "Category:"
CatAllowed(c) ==
    \/ /\ Len(c) >= 3 /\ c[1] \in { "Cities", "City" } /\ c[2] = "in"
    \/ /\ Len(c) >= 5 /\ c[1] \in { "Cities", "City" }
       /\ c[2] = "and" /\ c[3] = "towns" /\ c[4] = "in"
    \/ /\ Len(c) >= 4 /\ c[1] = "City" /\ c[2] = "counties" /\ c[3] = "of"
    \/ /\ Len(c) >= 5 /\ c[1] = "Port" /\ c[2] = "cities"
       /\ c[3] = "and" /\ c[4] = "towns"
    \/ /\ Len(c) >= 3 /\ c[1] = "Capitals" /\ c[2] \in { "of", "in" }
    \/ /\ Len(c) >= 3 /\ c[1] = "Municipalities" /\ c[2] = "in"

DENY_PLACES ==
    { "Districts", "Suburbs", "Neighbourhoods", "Neighborhoods", "Villages",
      "Towns", "Townships", "Boroughs" }

DENY_FACILITIES ==
    { <<"railway", "stations">>, <<"airports">>, <<"power", "stations">>,
      <<"universities">>, <<"lakes">>, <<"rivers">> }

\* CAT_DENY
CatDenied(c) ==
    \/ /\ Len(c) >= 3 /\ c[1] \in DENY_PLACES /\ c[2] = "in"
    \/ \E i \in 2..Len(c) : \E f \in DENY_FACILITIES :
          /\ MatchAt(c, i, f)
          /\ i + Len(f) + 1 <= Len(c)
          /\ c[i + Len(f)] = "in"

\* validatePageIsCity with the allow list consulted before the deny list
validatePageAllowFirst(p) ==
    LET cats  == p.categories
        intro == firstSentence(Trim(p.extract))
    IN  IF p.missing THEN [ ok |-> FALSE, reason |-> "missing" ]
        ELSE IF p.ns # 0 THEN [ ok |-> FALSE, reason |-> "not-article" ]
        ELSE IF p.disambiguation THEN [ ok |-> FALSE, reason |-> "disambiguation" ]
        ELSE IF \E i \in 1..Len(cats) : CatAllowed(cats[i])
        THEN [ ok |-> TRUE, reason |-> "allow-category" ]
        ELSE IF \E i \in 1..Len(cats) : CatDenied(cats[i])
        THEN [ ok |-> FALSE, reason |-> "deny-category" ]
        ELSE IF Trim(p.extract) = <<>> THEN [ ok |-> FALSE, reason |-> "no-intro" ]
        ELSE IF IntroMatches(intro, POS_HEADS)
        THEN [ ok |-> TRUE, reason |-> "intro-cityish" ]
        ELSE IF IntroMatches(intro, NEG_HEADS)
        THEN [ ok |-> FALSE, reason |-> "intro-noncity" ]
        ELSE [ ok |-> FALSE, reason |-> "no-signal" ]

\* validatePageIsCity(p): { ok, reason }
validatePageIsCity(p) ==
    LET cats  == p.categories
        intro == firstSentence(Trim(p.extract))
    IN  IF p.missing THEN [ ok |-> FALSE, reason |-> "missing" ]
        ELSE IF p.ns # 0 THEN [ ok |-> FALSE, reason |-> "not-article" ]
        ELSE IF p.disambiguation THEN [ ok |-> FALSE, reason |-> "disambiguation" ]
        ELSE IF \E i \in 1..Len(cats) : CatDenied(cats[i])
        THEN [ ok |-> FALSE, reason |-> "deny-category" ]
        ELSE IF \E i \in 1..Len(cats) : CatAllowed(cats[i])
        THEN [ ok |-> TRUE, reason |-> "allow-category" ]
        ELSE IF Trim(p.extract) = <<>> THEN [ ok |-> FALSE, reason |-> "no-intro" ]
        ELSE IF IntroMatches(intro, POS_HEADS)
        THEN [ ok |-> TRUE, reason |-> "intro-cityish" ]
        ELSE IF IntroMatches(intro, NEG_HEADS)
        THEN [ ok |-> FALSE, reason |-> "intro-noncity" ]
        ELSE [ ok |-> FALSE, reason |-> "no-signal" ]

-----------------------------------------------------------------------------
(* The knowledge source: what its query endpoint answers                   *)

\* a page of the knowledge source
Page(title, disambiguation, categories, extract) ==
    [ title |-> title, missing |-> FALSE, ns |-> 0,
      disambiguation |-> disambiguation,
      categories |-> categories, extract |-> extract ]

MissingPage(title) ==
    [ title |-> title, missing |-> TRUE, ns |-> 0, disambiguation |-> FALSE,
      categories |-> <<>>, extract |-> <<>> ]

T_Lodz == <<"L","o","d","z">>

T_LodzPl == <<"L/","o'","d","z'">>

T_Opole == <<"O","p","o","l","e">>

T_Kutno == <<"K","u","t","n","o">>

T_Lipno == <<"L","i","p","n","o">>

T_LipnoPoland == <<"L","i","p","n","o",","," ","P","o","l","a","n","d">>

T_NowyTarg == <<"N","o","w","y"," ","T","a","r","g">>

T_Okecie == <<"O","k","e","c","i","e">>

T_Zzyx == <<"Z","z","y","x">>

\* the articles the knowledge source holds
WikiPages ==
    { Page(T_Lodz, FALSE, << <<"Cities", "in", "Poland">> >>,
           <<"Lodz", "is", "a", "city", "in", "Poland", ".">>),
      Page(T_Opole, FALSE, <<>>,
           <<"Opole", "is", "a", "city", "on", "the", "Oder", ".">>),
      Page(T_Kutno, FALSE, <<>>,
           <<"Kutno", "is", "a", "town", "in", "Poland", ".">>),
      Page(T_Lipno, TRUE, <<>>, <<"Lipno", "may", "refer", "to", ":">>),
      Page(T_LipnoPoland, FALSE, << <<"Cities", "and", "towns", "in", "Poland">> >>,
           <<"Lipno", "is", "a", "town", "in", "Poland", ".">>),
      Page(T_NowyTarg, FALSE, <<>>,
           <<"Nowy", "Targ", "is", "the", "historic", "capital", "of",
             "Podhale", ".">>),
      Page(T_Okecie, FALSE, << <<"Districts", "in", "Warsaw">> >>,
           <<"Okecie", "is", "a", "district", "of", "Warsaw", ".">>) }

\* the title normalization of the knowledge source: an underscore is a
\* space, and the first letter is a capital
WikiNormalize(title) ==
    [i \in 1..Len(title) |->
        IF title[i] = "_" THEN " "
        ELSE IF i = 1 THEN UpperChar(title[i]) ELSE title[i]]

\* the answer to one query for titles: the normalizations, the redirects
\* and a page, possibly a missing one, for every title asked for
WikiQuery(titles) ==
    LET Step(acc, t) ==
            LET to == WikiNormalize(t)
                pg == IF \E p \in WikiPages : p.title = to
                      THEN CHOOSE p \in WikiPages : p.title = to
                      ELSE MissingPage(to)
            IN  [ normalized |-> IF to = t THEN acc.normalized
                                 ELSE Append(acc.normalized,
                                             [ from |-> t, to |-> to ]),
                  redirects |-> acc.redirects,
                  pagesByTitle |-> IF MapHas(acc.pagesByTitle, to)
                                   THEN acc.pagesByTitle
                                   ELSE MapSet(acc.pagesByTitle, to, pg) ]
    IN  FoldLeft(Step, [ normalized |-> <<>>, redirects |-> <<>>,
                         pagesByTitle |-> EmptyMap ], titles)

-----------------------------------------------------------------------------
(* wikipedia.client: fetchBatch and getSummaries                           *)

\* RATE_LIMITS.WIKIPEDIA_API
MAX_TITLES == 20

MAX_CONCURRENCY == 2

\* COUNTRY_LABELS
COUNTRY_LABELS(country) ==
    CASE country = "PL" -> <<"P","o","l","a","n","d">>
      [] country = "DE" -> <<"G","e","r","m","a","n","y">>
      [] country = "ES" -> <<"S","p","a","i","n">>
      [] country = "FR" -> <<"F","r","a","n","c","e">>

RECURSIVE chunk(_, _)
\* chunk(arr, size)
chunk(arr, size) ==
    IF arr = <<>> THEN <<>>
    ELSE IF Len(arr) <= size THEN <<arr>>
    ELSE <<SubSeq(arr, 1, size)>> \o chunk(SubSeq(arr, size + 1, Len(arr)), size)

\* resolveTitle(input, normalized, redirects)
resolveTitle(input, normalized, redirects) ==
    LET Find(list, from) ==
            IF \E i \in 1..Len(list) : list[i].from = from
            THEN list[Min({ i \in 1..Len(list) : list[i].from = from })].to
            ELSE from
    IN  Find(redirects, Find(normalized, input))

\* fetchBatch(titles): failed[i] says that the request for chunk i failed
\* for good (fetchBatchSingle threw after its retries)
fetchBatch(titles, failed) ==
    IF Len(titles) <= MAX_TITLES
    THEN IF failed[1]
         THEN [ threw |-> TRUE, normalized |-> <<>>, redirects |-> <<>>,
                pagesByTitle |-> EmptyMap, requests |-> 1 ]
         ELSE [ threw |-> FALSE, requests |-> 1 ] @@ WikiQuery(titles)
    ELSE LET batches == chunk(titles, MAX_TITLES)
             Merge(acc, i) ==
                 IF failed[i] THEN acc
                 ELSE LET r == WikiQuery(batches[i])
                          Put(m, k) == IF MapHas(m, k) THEN m
                                       ELSE MapSet(m, k, MapGet(r.pagesByTitle, k))
                      IN  [ normalized |-> acc.normalized \o r.normalized,
                            redirects |-> acc.redirects \o r.redirects,
                            pagesByTitle |-> FoldLeft(Put, acc.pagesByTitle,
                                                      r.pagesByTitle.keys) ]
         IN  [ threw |-> FALSE, requests |-> Len(batches) ]
             @@ FoldLeft(Merge, [ normalized |-> <<>>, redirects |-> <<>>,
                                  pagesByTitle |-> EmptyMap ],
                         [i \in 1..Len(batches) |-> i])

\* getPage(input, r): the page for an input, Undefined when there is none
getPage(input, r) ==
    LET resolved == resolveTitle(input, r.normalized, r.redirects)
        keys     == r.pagesByTitle.keys
        same     == { i \in 1..Len(keys) : ToLower(keys[i]) = ToLower(resolved) }
    IN  IF MapHas(r.pagesByTitle, resolved) THEN MapGet(r.pagesByTitle, resolved)
        ELSE IF same # {} THEN r.pagesByTitle.val[Min(same)]
        ELSE Undefined

\* (page.extract || "").trim() || null
DescriptionOf(page) ==
    IF Trim(page.extract) = <<>> THEN Null ELSE Trim(page.extract)

\* the catch block of getSummaries: every title without a result gets null,
\* cached for five minutes
SummariesCatch(titles, result, cache, t) ==
    LET Step(acc, title) ==
            IF MapHas(acc.result, title) THEN acc
            ELSE [ result |-> MapSet(acc.result, title, Null),
                   cache  |-> setWikiDescription(acc.cache, title, Null,
                                                 WIKI_FAILURE_TTL, t) ]
    IN  FoldLeft(Step, [ result |-> result, cache |-> cache ], titles)

\* pass 1 of getSummaries over the uncached titles, given the answer r1
SummariesPass1(uncachedTitles, country, r1, result, cache, t) ==
    LET Retry(acc, query, original) ==
            [ acc EXCEPT !.unresolved = Append(@, query),
                         !.retryMap = MapSet(@, query, original) ]
        Settle(acc, input, description) ==
            [ acc EXCEPT !.result = MapSet(@, input, description),
                         !.cache = setWikiDescription(@, input, description,
                                                      WIKIPEDIA_TTL, t) ]
        Step(acc, input) ==
            LET page    == getPage(input, r1)
                verdict == validatePageIsCity(page)
            IN  IF page = Undefined THEN Retry(acc, input, input)
                ELSE IF verdict.reason = "disambiguation"
                THEN Retry(acc, input \o <<",", " ">> \o COUNTRY_LABELS(country),
                           input)
                ELSE IF verdict.ok THEN Settle(acc, input, DescriptionOf(page))
                ELSE IF verdict.reason \in { "missing", "no-intro", "no-signal" }
                THEN Retry(acc, input, input)
                ELSE Settle(acc, input, Null)
    IN  FoldLeft(Step, [ result |-> result, cache |-> cache,
                         unresolved |-> <<>>, retryMap |-> EmptyMap ],
                 uncachedTitles)

\* pass 2 of getSummaries over the folded titles, given the answer r2
SummariesPass2(asciiFoldMap, retryMap, r2, result, cache, t) ==
    LET Step(acc, foldedTitle) ==
            LET queryTitle    == MapGet(asciiFoldMap, foldedTitle)
                originalTitle == MapGet(retryMap, queryTitle)
                page          == getPage(foldedTitle, r2)
                description   ==
                    IF page = Undefined THEN Null
                    ELSE IF validatePageIsCity(page).ok THEN DescriptionOf(page)
                    ELSE Null
            IN  [ result |-> MapSet(acc.result, originalTitle, description),
                  cache  |-> setWikiDescription(acc.cache, originalTitle,
                                                description, WIKIPEDIA_TTL, t) ]
    IN  FoldLeft(Step, [ result |-> result, cache |-> cache ], asciiFoldMap.keys)

\* the result of getSummaries: the map, the cache afterwards and the number
\* of requests sent to the knowledge source
Summaries(r, sent) == [ result |-> r.result, cache |-> r.cache, requests |-> sent ]

\* the cached titles go to the result, the others are to be fetched
CachePartition(titles, batch) ==
    LET Found(title) ==
            batch.found[Min({ i \in 1..Len(titles) : titles[i] = title })].value
        Part(acc, title) ==
            IF Found(title) # Undefined
            THEN [ acc EXCEPT !.result = MapSet(@, title, Found(title)) ]
            ELSE [ acc EXCEPT !.uncached = Append(@, title) ]
    IN  FoldLeft(Part, [ result |-> EmptyMap, uncached |-> <<>>,
                         cache |-> batch.cache ], titles)

\* asciiFoldMap: folded title -> query title, a later title replacing an
\* earlier one with the same folding
AsciiFoldMap(unresolved) ==
    LET Fold(m, queryTitle) == MapSet(m, asciiFold(queryTitle, FALSE), queryTitle)
    IN  FoldLeft(Fold, EmptyMap, unresolved)

\* getSummaries from the answer r2 of pass 2
SummariesAfterPass2(titles, t, sent, p1, asciiFoldMap, r2) ==
    IF r2.threw
    THEN Summaries(SummariesCatch(titles, p1.result, p1.cache, t),
                   sent + r2.requests)
    ELSE Summaries(SummariesPass2(asciiFoldMap, p1.retryMap, r2, p1.result,
                                  p1.cache, t),
                   sent + r2.requests)

\* getSummaries from the folded titles of pass 2
SummariesRetry(titles, t, failed2, sent, p1, asciiFoldMap) ==
    SummariesAfterPass2(titles, t, sent, p1, asciiFoldMap,
                        fetchBatch(asciiFoldMap.keys, failed2))

\* getSummaries from the outcome p1 of pass 1
SummariesAfterPass1(titles, t, failed2, sent, p1) ==
    IF p1.unresolved = <<>> THEN Summaries(p1, sent)
    ELSE SummariesRetry(titles, t, failed2, sent, p1,
                        AsciiFoldMap(p1.unresolved))

\* getSummaries from the answer r1 of pass 1
SummariesFetched(titles, country, t, failed2, part, r1) ==
    IF r1.threw
    THEN Summaries(SummariesCatch(titles, part.result, part.cache, t),
                   r1.requests)
    ELSE SummariesAfterPass1(titles, t, failed2, r1.requests,
             SummariesPass1(part.uncached, country, r1, part.result,
                            part.cache, t))

\* getSummaries from the partition of the titles by the cache
SummariesUncached(titles, country, t, failed1, failed2, part) ==
    IF part.uncached = <<>> THEN Summaries(part, 0)
    ELSE SummariesFetched(titles, country, t, failed2, part,
                          fetchBatch(part.uncached, failed1))

\* WikipediaClient.getSummaries(titles, country) at time t on the description
\* cache; failed1 and failed2 say which chunk requests of pass 1 and of
\* pass 2 fail.  Returns the map, the cache afterwards and the number of
\* requests sent to the knowledge source.
getSummaries(titles, country, cache, t, failed1, failed2) ==
    IF titles = <<>>
    THEN [ result |-> EmptyMap, cache |-> cache, requests |-> 0 ]
    ELSE SummariesUncached(titles, country, t, failed1, failed2,
             CachePartition(titles,
                            getWikiDescriptionsBatch(cache, titles, t)))

-----------------------------------------------------------------------------
(* city.service: the helpers of getMostPollutedByCountry                   *)

\* a number that is null
NullNumber == 0 - 1

\* a && ... : whether a number | null is truthy
Truthy(n) == n # NullNumber /\ n # 0

\* a || null
OrNull(n) == IF n = 0 THEN NullNumber ELSE n

\* a ?? b
Coalesce(a, b) == IF a = NullNumber THEN b ELSE a

Max(a, b) == IF a >= b THEN a ELSE b

Minimum(a, b) == IF a <= b THEN a ELSE b

\* API_LIMITS
MIN_CITY_LIMIT == 1

MAX_CITY_LIMIT == 50

\* const offset = (page - 1) * limit
Offset(limit, page) == (page - 1) * limit

\* const want = Math.max(1, Math.min(limit, 50))
Want(limit) == Max(MIN_CITY_LIMIT, Minimum(limit, MAX_CITY_LIMIT))

\* Array.prototype.slice(start, end), indices from 0, negative ones from the end
Slice(arr, start, end) ==
    LET len == Len(arr)
        Rel(k) == IF k < 0 THEN Max(len + k, 0) ELSE Minimum(k, len)
    IN  SubSeq(arr, Rel(start) + 1, Rel(end))

RECURSIVE InsertDesc(_, _)

RECURSIVE InsertDescUnstable(_, _)
\* c put into a list sorted by pollution descending, before its equals
InsertDescUnstable(sorted, c) ==
    IF sorted = <<>> THEN <<c>>
    ELSE IF Head(sorted).pollution > c.pollution
    THEN <<Head(sorted)>> \o InsertDescUnstable(Tail(sorted), c)
    ELSE <<c>> \o sorted

\* c put into a list sorted by pollution descending, after its equals
InsertDesc(sorted, c) ==
    IF sorted = <<>> THEN <<c>>
    ELSE IF Head(sorted).pollution >= c.pollution
    THEN <<Head(sorted)>> \o InsertDesc(Tail(sorted), c)
    ELSE <<c>> \o sorted

\* cities.sort((a, b) => b.pollution - a.pollution): a stable sort
SortByPollution(cities) == FoldLeft(InsertDesc, <<>>, cities)

\* const cap = (w) => w ? w.charAt(0).toUpperCase() + w.slice(1).toLowerCase() : w
Cap(w) ==
    [i \in 1..Len(w) |-> IF i = 1 THEN UpperChar(w[i]) ELSE LowerChar(w[i])]

\* the lookup title of a city: a two-word name is joined by an underscore
WikiTitle(city) ==
    LET parts == SplitOn(city, <<>>)
    IN  IF Len(parts) = 2 THEN Cap(parts[1]) \o <<"_">> \o Cap(parts[2])
        ELSE city

\* a CountryCacheData; the timestamp field is the time of the write
CountryCacheData(cities, lastPage, totalPages, t, isComplete) ==
    [ cities |-> cities, lastPage |-> lastPage, totalPages |-> totalPages,
      timestamp |-> t, isComplete |-> isComplete ]

\* the array held by a cache entry sorted in place: the entry keeps its
\* place, its age and its other fields
SortedInPlace(cache, country, cities) ==
    [i \in 1..Len(cache) |->
        IF cache[i].key = country
        THEN [ cache[i] EXCEPT !.data.cities = cities ]
        ELSE cache[i]]

-----------------------------------------------------------------------------
(* The measurement source: the rows it holds for a country, page by page   *)

\* a PollutionItem with a numeric pollution
Row(name, value) ==
    [ name |-> name, pollution |-> [ number |-> TRUE, value |-> value ] ]

\* a PollutionItem whose pollution is not a number
BadRow(name) ==
    [ name |-> name, pollution |-> [ number |-> FALSE, value |-> 0 ] ]

N_Unknown3 == <<"U","n","k","n","o","w","n"," ","3">>

\* the upstream pages the measurement source may hold
PageChoices ==
    { << Row(T_Lodz, 5), Row(T_Opole, 5) >>,
      << Row(T_NowyTarg, 8), Row(T_LodzPl, 7) >>,
      << Row(T_Kutno, 9) >>,
      << Row(N_Unknown3, 3), BadRow(T_Opole) >> }

\* the number of upstream pages of a country is at most MaxPages
MaxPages == 2

RECURSIVE SeqsUpTo(_, _)
\* the sequences over S of length at most n
SeqsUpTo(S, n) ==
    IF n = 0 THEN { <<>> }
    ELSE LET shorter == SeqsUpTo(S, n - 1)
         IN  shorter \cup { Append(q, x) : q \in shorter, x \in S }

SUPPORTED_COUNTRIES == { "PL", "DE", "ES", "FR" }

\* the countries requests are made for
Countries == { "PL" }

\* GET /pollution?country&page&limit=50 answered by the measurement source
PollutionResponse(pages, page) ==
    [ meta    |-> [ page |-> page, totalPages |-> Len(pages) ],
      results |-> IF page \in 1..Len(pages) THEN pages[page] ELSE <<>> ]

\* the names the measurement source holds
RowNames == UNION { { page[i].name : i \in 1..Len(page) } : page \in PageChoices }

\* classify over the names and countries in use, computed once
Classified ==
    [ country \in Countries |-> [ name \in RowNames |-> classify(name, country) ] ]

\* const verdict = classify({ name: String(row?.name ?? ""), pollution }, country)
Verdict(row, country) == Classified[country][row.name]

\* whether a row with verdict v would become a candidate if duplicates were
\* not dropped
IsCandidateNoDedup(row, v, country, seen) ==
    /\ ~parsePollution(row.pollution).null
    /\ v.verdict \in { "keep", "salvage" }

\* whether a row with verdict v becomes a candidate, given the keys seen so
\* far
IsCandidate(row, v, country, seen) ==
    /\ ~parsePollution(row.pollution).null
    /\ v.verdict \in { "keep", "salvage" }
    /\ cityKey(v.city, country) \notin seen

\* batch.push({ city, pollution, wikiTitle, key }), with the place of the row
Candidate(city, pollution, country, pageNo, i) ==
    [ city |-> city, pollution |-> pollution, wikiTitle |-> WikiTitle(city),
      key |-> cityKey(city, country), foundAt |-> <<pageNo, i>> ]

\* the body of the loop over the rows for row i with verdict v
SanitizeRow(acc, row, v, country, pageNo, i) ==
    IF ~IsCandidate(row, v, country, acc.seen) THEN acc
    ELSE [ seen  |-> acc.seen \cup { cityKey(v.city, country) },
           batch |-> Append(acc.batch,
                            Candidate(v.city, parsePollution(row.pollution).value,
                                      country, pageNo, i)) ]

\* step 1 of the loop body: sanitize and de-dupe the rows of page pageNo
SanitizePage(rows, country, seen, pageNo) ==
    LET Step(acc, i) ==
            SanitizeRow(acc, rows[i], Verdict(rows[i], country), country,
                        pageNo, i)
    IN  FoldLeft(Step, [ seen |-> seen, batch |-> <<>> ],
                 [i \in 1..Len(rows) |-> i])

\* whether a call of getSummaries met a failing knowledge source: 1 when
\* the query of pass 1 or, after it, the query of pass 2 was sent and failed
WikiFailed(sums, failed1, failed2) ==
    IF \/ failed1 /\ sums.requests >= 1
       \/ ~failed1 /\ failed2 /\ sums.requests >= 2
    THEN 1 ELSE 0

\* candidates kept whether or not they have a description
NewCitiesKeepingAll(batch, descMap, country) ==
    [ i \in 1..Len(batch) |->
        [ country |-> country, city |-> batch[i].city,
          pollution |-> batch[i].pollution, description |-> <<>>,
          foundAt |-> batch[i].foundAt ] ]

\* step 3 of the loop body: the candidates with a description
NewCities(batch, descMap, country) ==
    LET Description(b) ==
            LET d == MapGet(descMap, b.wikiTitle)
            IN  Trim(IF d = Undefined \/ d = Null THEN <<>> ELSE d)
        Step(acc, b) ==
            IF Description(b) = <<>> THEN acc
            ELSE Append(acc, [ country |-> country, city |-> b.city,
                               pollution |-> b.pollution,
                               description |-> Description(b),
                               foundAt |-> b.foundAt ])
    IN  FoldLeft(Step, <<>>, batch)

-----------------------------------------------------------------------------
(* The aggregation service: one request at a time                          *)

VARIABLES
    now,             \* Date.now()
    upstream,        \* the pages the measurement source holds, per country
    countryCache,    \* CacheService.countryCache
    pollutionCache,  \* CacheService.pollutionCache
    wikiCache,       \* CacheService.wikiCache
    req,             \* the request in progress: its locals and its position
    last,            \* the last response sent since time last passed
    faults,          \* the number of upstream failures so far
    token,           \* PolluApiClient.token ("" for null)
    tokenExpiresAt,  \* PolluApiClient.tokenExpiresAt
    refreshToken,    \* PolluApiClient.refreshToken ("" for null)
    requestTimes,    \* PolluApiClient.requestTimes
    call,            \* the fetchCountryPage call in progress and its position
    sent,            \* when the HTTP calls of the last window were sent
    answer,          \* the status of the last HTTP answer
    lru,             \* the Map of an LRUCache bounded at LruSize
    written,         \* per key, when and with which ttl it was last set
    touched,         \* per key, the operation that last touched it
    ops,             \* the number of operations on the LRUCache so far
    retry,           \* the retryRequest in progress and its position
    pool,            \* the runInPool in progress: its chunks and workers
    other,           \* a second request in progress, suspended at an await
    otherCall        \* a second fetchCountryPage call, suspended at an await

\* the state of the measurement client
clientVars ==
    << token, tokenExpiresAt, refreshToken, requestTimes, call, sent, answer >>

\* the state of an LRUCache on its own, with the record of its operations
lruVars == << lru, written, touched, ops >>

\* the state of the requests of the knowledge client
poolVars == << retry, pool >>

\* the state of what runs concurrently with the request and the call
pairVars == << other, otherCall >>

serviceVars ==
    << now, upstream, countryCache, pollutionCache, wikiCache, req, last,
       faults >>

\* requests carry a limit of -MaxLimit..MaxLimit and a page of 0..MaxPage
MaxLimit == 2

MaxPage == 2

\* time passes at most MaxTicks times
MaxTicks == 1

\* at most MaxFaults upstream calls fail
MaxFaults == 1

Limits == { 0 - MaxLimit } \cup (1..MaxLimit)

PageNumbers == 0..MaxPage

\* the instants at which requests arrive
Instants ==
    { k * (POLLUTION_TTL + 1) : k \in 0..MaxTicks }
        \cup { k * (COUNTRY_TTL + 1) : k \in 0..MaxTicks }

Idle == [ pc |-> "idle" ]

\* the keys of the LRUCache on its own: "", "a", "b" and "c"
LruKeys == { <<>>, << "a" >>, << "b" >>, << "c" >> }

\* a key that was never set
NeverSet == [ at |-> 0, ttl |-> 0 - 1 ]

\* new LRUCache(LruSize), no operation so far
LruInit ==
    /\ lru = <<>>
    /\ written = [ key \in LruKeys |-> NeverSet ]
    /\ touched = [ key \in LruKeys |-> 0 ]
    /\ ops = 0

\* no request of the knowledge client in progress
PoolInit ==
    /\ retry = Idle
    /\ pool = Idle

\* nothing runs concurrently
PairInit ==
    /\ other = Idle
    /\ otherCall = Idle

\* the response of the controller, with what the request did to produce it
Response(country, limit, page, status, cities, hasMore, all, pollCalls, wikiCalls, path) ==
    [ country |-> country, limit |-> limit, page |-> page, status |-> status,
      cities |-> cities, hasMore |-> hasMore, all |-> all,
      pollCalls |-> pollCalls, wikiCalls |-> wikiCalls, path |-> path ]

\* res.status(400).json({ error })
BadRequest(error) == [ status |-> 400, error |-> error ]

\* errorHandler: res.status(500).json({ message })
ServerError(message, pollCalls, wikiCalls) ==
    [ status |-> 500, message |-> message, pollCalls |-> pollCalls,
      wikiCalls |-> wikiCalls ]

\* no response since time last passed
NoResponse == [ status |-> 0 ]

ServiceInit ==
    /\ now = 0
    /\ upstream \in [ Countries -> SeqsUpTo(PageChoices, MaxPages) ]
    /\ countryCache = <<>>
    /\ pollutionCache = <<>>
    /\ wikiCache = <<>>
    /\ req = Idle
    /\ last = NoResponse
    /\ faults = 0
    /\ token = ""
    /\ tokenExpiresAt = 0
    /\ refreshToken = ""
    /\ requestTimes = <<>>
    /\ call = Idle
    /\ sent = <<>>
    /\ answer = NullNumber
    /\ LruInit
    /\ PoolInit
    /\ PairInit

\* while (chosen.length < neededCities) { if (totalPages && currentPage >
\* totalPages) break; ...: whether the loop body runs once more
LoopContinues(r) ==
    /\ Len(r.chosen) < Offset(r.limit, r.page) + Want(r.limit)
    /\ ~(Truthy(r.totalPages) /\ r.currentPage > r.totalPages)

\* where a request goes next
NextPc(r) == IF LoopContinues(r) THEN "loop" ELSE "finish"

\* CityController.getCities with an unsupported country or a page below 1
Reject(country, limit, page) ==
    /\ req.pc = "idle"
    /\ country \notin SUPPORTED_COUNTRIES \/ page < 1
    /\ last' = IF country \notin SUPPORTED_COUNTRIES
               THEN BadRequest("Invalid or missing country")
               ELSE BadRequest("Page must be 1 or greater")
    /\ UNCHANGED << now, upstream, countryCache, pollutionCache, wikiCache,
                    req, faults >>
    /\ UNCHANGED clientVars
    /\ UNCHANGED lruVars
    /\ UNCHANGED poolVars
    /\ UNCHANGED pairVars

\* a request that reads every page again from the first
ResumePageFromStart(cacheEntry) == 1

\* a request that reads the last stored page again
ResumePageAgain(cacheEntry) ==
    IF cacheEntry # Null /\ cacheEntry.lastPage >= 1 THEN cacheEntry.lastPage
    ELSE 1

\* a request that resumes one page too far
ResumePageSkipping(cacheEntry) ==
    IF cacheEntry # Null THEN cacheEntry.lastPage + 2 ELSE 1

\* let currentPage = cacheEntry ? cacheEntry.lastPage + 1 : 1
ResumePage(cacheEntry) ==
    IF cacheEntry # Null THEN cacheEntry.lastPage + 1 ELSE 1

\* a request that starts with no city
ChosenFromScratch(cacheEntry) == <<>>

\* const chosen = cacheEntry ? [...cacheEntry.cities] : []
ChosenFromCache(cacheEntry) ==
    IF cacheEntry # Null THEN cacheEntry.cities ELSE <<>>

\* getMostPollutedByCountry up to its first loop test, answered from the
\* country cache when that holds enough cities
Request(country, limit, page) ==
    /\ req.pc = "idle"
    /\ country \in SUPPORTED_COUNTRIES
    /\ page >= 1
    /\ LET offset == Offset(limit, page)
           want   == Want(limit)
           got    == getCountryCache(countryCache, country, now)
           cacheEntry == got.value
       IN  IF cacheEntry # Null /\ Len(cacheEntry.cities) >= offset + want
           THEN LET sorted == SortByPollution(cacheEntry.cities)
                IN  /\ countryCache' = SortedInPlace(got.cache, country, sorted)
                    /\ last' =
                           Response(country, limit, page, 200,
                                    Slice(sorted, offset, offset + want),
                                    offset + want < Len(sorted), sorted,
                                    0, 0, "hit")
                    /\ req' = req
           ELSE LET chosen == ChosenFromCache(cacheEntry)
                    r == [ pc |-> "loop", country |-> country,
                           limit |-> limit, page |-> page,
                           chosen |-> chosen,
                           seen |-> { cityKey(chosen[i].city,
                                              chosen[i].country) :
                                          i \in 1..Len(chosen) },
                           currentPage |-> ResumePage(cacheEntry),
                           totalPages |-> IF cacheEntry # Null
                                          THEN OrNull(cacheEntry.totalPages)
                                          ELSE NullNumber,
                           stored |-> FALSE, pollCalls |-> 0,
                           wikiCalls |-> 0, wikiFailures |-> 0,
                           firstPage |-> ResumePage(cacheEntry),
                           turns |-> 0 ]
                IN  /\ countryCache' = got.cache
                    /\ req' = [ r EXCEPT !.pc = NextPc(r) ]
                    /\ last' = last
    /\ UNCHANGED << now, upstream, pollutionCache, wikiCache, faults >>
    /\ UNCHANGED clientVars
    /\ UNCHANGED lruVars
    /\ UNCHANGED poolVars
    /\ UNCHANGED pairVars

\* the loop body from the page in hand: sanitize, look up, accumulate, store;
\* turns counts the pages the request has asked fetchCountryPage for, and
\* firstPage is the page it began with
ProcessPage(resp, pollCache, pollCalls, failed1, failed2) ==
    \E clean \in { SanitizePage(resp.results, req.country, req.seen,
                                req.currentPage) } :
    \E sums \in { getSummaries([ i \in 1..Len(clean.batch) |->
                                     clean.batch[i].wikiTitle ],
                               req.country, wikiCache, now,
                               << failed1 >>, << failed2 >>) } :
    LET country    == req.country
        totalPages == Coalesce(req.totalPages,
                               Coalesce(resp.meta.totalPages, 1))
        batch      == clean.batch
        lastOne    == req.currentPage >= Coalesce(totalPages, 1)
        r0 == [ req EXCEPT !.totalPages = totalPages, !.seen = clean.seen,
                           !.pollCalls = pollCalls, !.turns = @ + 1 ]
    IN  /\ pollutionCache' = pollCache
        /\ IF batch = <<>>
           THEN IF lastOne
                THEN /\ countryCache' = setCountryCache(countryCache, country,
                            CountryCacheData(req.chosen, req.currentPage - 1,
                                             totalPages, now, TRUE), now)
                     /\ req' = [ r0 EXCEPT !.stored = TRUE, !.pc = "finish" ]
                     /\ wikiCache' = wikiCache
                ELSE /\ req' = [ r0 EXCEPT !.currentPage = @ + 1,
                                   !.pc = NextPc([ r0 EXCEPT
                                              !.currentPage = @ + 1 ]) ]
                     /\ UNCHANGED << countryCache, wikiCache >>
           ELSE \E chosen \in { req.chosen
                                  \o NewCities(batch, sums.result, country) } :
                LET r1 == [ r0 EXCEPT !.chosen = chosen, !.stored = TRUE,
                                      !.wikiCalls = @ + sums.requests,
                                      !.wikiFailures =
                                          @ + WikiFailed(sums, failed1,
                                                         failed2) ]
                    r2 == [ r1 EXCEPT !.currentPage = @ + 1 ]
                IN  /\ wikiCache' = sums.cache
                    /\ countryCache' = setCountryCache(countryCache, country,
                           CountryCacheData(chosen, req.currentPage,
                                            totalPages, now, lastOne), now)
                    /\ req' = IF lastOne THEN [ r1 EXCEPT !.pc = "finish" ]
                              ELSE [ r2 EXCEPT !.pc = NextPc(r2) ]

\* one turn of the loop whose page comes from the page cache
LoopCachedPage(failed1, failed2) ==
    /\ req.pc = "loop"
    /\ faults + (IF failed1 \/ failed2 THEN 1 ELSE 0) <= MaxFaults
    /\ LET got == getPollutionPage(pollutionCache, req.country,
                                   req.currentPage, MAX_CITY_LIMIT, now)
       IN  /\ got.value # Null
           /\ ProcessPage(got.value, got.cache, req.pollCalls, failed1,
                          failed2)
    /\ faults' = faults + (IF failed1 \/ failed2 THEN 1 ELSE 0)
    /\ UNCHANGED << now, upstream, last >>
    /\ UNCHANGED clientVars
    /\ UNCHANGED lruVars
    /\ UNCHANGED poolVars
    /\ UNCHANGED pairVars

\* one turn of the loop whose page the measurement source delivers
LoopFetchedPage(failed1, failed2) ==
    /\ req.pc = "loop"
    /\ faults + (IF failed1 \/ failed2 THEN 1 ELSE 0) <= MaxFaults
    /\ LET got == getPollutionPage(pollutionCache, req.country,
                                   req.currentPage, MAX_CITY_LIMIT, now)
           resp == PollutionResponse(upstream[req.country], req.currentPage)
       IN  /\ got.value = Null
           /\ ProcessPage(resp,
                  setPollutionPage(got.cache, req.country, req.currentPage,
                                   MAX_CITY_LIMIT, resp, now),
                  req.pollCalls + 1, failed1, failed2)
    /\ faults' = faults + (IF failed1 \/ failed2 THEN 1 ELSE 0)
    /\ UNCHANGED << now, upstream, last >>
    /\ UNCHANGED clientVars
    /\ UNCHANGED lruVars
    /\ UNCHANGED poolVars
    /\ UNCHANGED pairVars

\* one turn of the loop whose page fetch throws: the error reaches the
\* controller and errorHandler answers 500
LoopFetchFails ==
    /\ req.pc = "loop"
    /\ faults < MaxFaults
    /\ LET got == getPollutionPage(pollutionCache, req.country,
                                   req.currentPage, MAX_CITY_LIMIT, now)
       IN  /\ got.value = Null
           /\ pollutionCache' = got.cache
    /\ faults' = faults + 1
    /\ last' = ServerError("Pollution fetch failed", req.pollCalls + 1,
                            req.wikiCalls)
    /\ req' = Idle
    /\ UNCHANGED << now, upstream, countryCache, wikiCache >>
    /\ UNCHANGED clientVars
    /\ UNCHANGED lruVars
    /\ UNCHANGED poolVars
    /\ UNCHANGED pairVars

\* the final sort and slice, and the response of the controller
Finish ==
    /\ req.pc = "finish"
    /\ LET offset   == Offset(req.limit, req.page)
           want     == Want(req.limit)
           endIndex == Minimum(offset + want, Len(req.chosen))
           sorted   == SortByPollution(req.chosen)
       IN  /\ countryCache' =
                  IF req.stored
                  THEN SortedInPlace(countryCache, req.country, sorted)
                  ELSE countryCache
           /\ last' =
                  Response(req.country, req.limit, req.page, 200,
                           Slice(sorted, offset, endIndex),
                           endIndex < Len(sorted), sorted, req.pollCalls,
                           req.wikiCalls, "loop")
    /\ req' = Idle
    /\ UNCHANGED << now, upstream, pollutionCache, wikiCache, faults >>
    /\ UNCHANGED clientVars
    /\ UNCHANGED lruVars
    /\ UNCHANGED poolVars
    /\ UNCHANGED pairVars

\* time passes between two requests
Tick(t) ==
    /\ req.pc = "idle"
    /\ t > now
    /\ now' = t
    /\ last' = NoResponse
    /\ UNCHANGED << upstream, countryCache, pollutionCache, wikiCache, req,
                    faults >>
    /\ UNCHANGED clientVars
    /\ UNCHANGED lruVars
    /\ UNCHANGED poolVars
    /\ UNCHANGED pairVars

ServiceNext ==
    \/ \E country \in Countries \cup { "XX" }, limit \in Limits,
          page \in PageNumbers : Reject(country, limit, page)
    \/ \E country \in Countries, limit \in Limits, page \in PageNumbers :
          Request(country, limit, page)
    \/ \E failed1, failed2 \in BOOLEAN : LoopCachedPage(failed1, failed2)
    \/ \E failed1, failed2 \in BOOLEAN : LoopFetchedPage(failed1, failed2)
    \/ LoopFetchFails
    \/ Finish
    \/ \E t \in Instants : Tick(t)

vars == << serviceVars, clientVars, lruVars, poolVars, pairVars >>

Spec == ServiceInit /\ [][ServiceNext]_vars

-----------------------------------------------------------------------------
(* Properties of the aggregation service                                   *)

\* a step that sends a response
Responded == req'.pc = "idle" /\ now' = now

\* discovery order: upstream page order, then row order within a page
DiscoveredBefore(a, b) ==
    a.foundAt[1] < b.foundAt[1]
        \/ (a.foundAt[1] = b.foundAt[1] /\ a.foundAt[2] < b.foundAt[2])

\* C1: every response lists its cities in non-increasing pollution order,
\* and cities of equal pollution in the order of their discovery
C1_SortedAndStable ==
    last.status = 200 =>
        \A i, j \in 1..Len(last.cities) :
            i < j =>
                \/ last.cities[i].pollution > last.cities[j].pollution
                \/ /\ last.cities[i].pollution = last.cities[j].pollution
                   /\ DiscoveredBefore(last.cities[i], last.cities[j])

\* a response served from the country cache that holds two cities of equal
\* pollution
C1_Witness ==
    /\ last.status = 200
    /\ last.path = "hit"
    /\ \E i, j \in 1..Len(last.cities) :
           i < j /\ last.cities[i].pollution = last.cities[j].pollution

\* the dedup keys of the cities of a list
KeysOf(cities) ==
    [ i \in 1..Len(cities) |-> cityKey(cities[i].city, cities[i].country) ]

\* C2: no two cities stored in a country's cache entry have the same dedup
\* key
C2_NoDuplicateKeys ==
    \A e \in 1..Len(countryCache) :
        LET keys == KeysOf(countryCache[e].data.cities)
        IN  \A i, j \in 1..Len(keys) : i # j => keys[i] # keys[j]

\* a cache entry that holds a city of which the pages read so far hold two
\* rows with the same dedup key
C2_Witness ==
    \E e \in 1..Len(countryCache) :
        LET data  == countryCache[e].data
            pages == upstream[countryCache[e].key]
            KeyAt(p, i) ==
                cityKey(Verdict(pages[p][i], countryCache[e].key).city,
                        countryCache[e].key)
        IN  \E p, q \in 1..Len(pages) :
                /\ p < q
                /\ q <= data.lastPage
                /\ \E i \in 1..Len(pages[p]), j \in 1..Len(pages[q]) :
                       /\ KeyAt(p, i) = KeyAt(q, j)
                       /\ \E k \in 1..Len(data.cities) :
                              KeysOf(data.cities)[k] = KeyAt(p, i)

RECURSIVE ValidatedUpTo(_, _, _)
\* the validated cities of the first k upstream pages of a country, by a
\* knowledge source that answers every query
ValidatedUpTo(country, pages, k) ==
    IF k = 0 THEN [ chosen |-> <<>>, seen |-> {} ]
    ELSE LET before == ValidatedUpTo(country, pages, k - 1)
             clean  == SanitizePage(pages[k], country, before.seen, k)
             sums   == getSummaries([ i \in 1..Len(clean.batch) |->
                                          clean.batch[i].wikiTitle ],
                                    country, <<>>, 0, << FALSE >>, << FALSE >>)
         IN  [ chosen |-> before.chosen
                             \o NewCities(clean.batch, sums.result, country),
               seen   |-> clean.seen ]

\* the validated cities of every country over all its upstream pages, ranked
RankedOverAllPages ==
    [ country \in Countries |->
        SortByPollution(ValidatedUpTo(country, upstream[country],
                                      Len(upstream[country])).chosen) ]

\* C3: a response for page 1 and a limit L of 1..50 holds the L highest
\* validated cities over all upstream pages (no upstream call having failed)
C3_TopOverAllPages ==
    ( /\ last.status = 200
      /\ last.page = 1
      /\ last.limit \in MIN_CITY_LIMIT..MAX_CITY_LIMIT
      /\ faults = 0 )
        => last.cities = SubSeq(RankedOverAllPages[last.country], 1,
                                Minimum(last.limit,
                                    Len(RankedOverAllPages[last.country])))

\* C4: the hasMore flag of a response is true if and only if the accumulated
\* set holds a city ranked after the last city of the returned slice
C4_HasMoreIffBeyondSlice ==
    last.status = 200 =>
        ( last.hasMore <=>
            /\ last.cities # <<>>
            /\ \E j, k \in 1..Len(last.all) :
                   /\ last.all[j] = last.cities[Len(last.cities)]
                   /\ k > j )

\* C5: after a response with hasMore = false, the request that follows at
\* once for the next page of the same country and limit returns no city
C5_NoMoreMeansNextPageEmpty ==
    [][ ( /\ last.status = 200
          /\ ~last.hasMore
          /\ Responded
          /\ last'.status = 200
          /\ last'.country = last.country
          /\ last'.limit = last.limit
          /\ last'.page = last.page + 1 )
            => last'.cities = <<>> ]_vars

\* C6: of two identical valid requests in a row, the first successful, the
\* second returns the same cities and hasMore and makes no upstream call
C6_RepeatIsStableAndFree ==
    [][ ( /\ last.status = 200
          /\ last.limit \in MIN_CITY_LIMIT..MAX_CITY_LIMIT
          /\ Responded
          /\ faults' = 0
          /\ last'.status = 200
          /\ last'.country = last.country
          /\ last'.limit = last.limit
          /\ last'.page = last.page )
            => /\ last'.cities = last.cities
               /\ last'.hasMore = last.hasMore
               /\ last'.pollCalls = 0
               /\ last'.wikiCalls = 0 ]_vars

-----------------------------------------------------------------------------
(* The measurement client: rate gate, retries, token, page fetch           *)

\* RATE_LIMITS.POLLUTION_API
MAX_REQUESTS == 5

WINDOW_MS == 10000

MAX_RETRIES == 3

\* the message of the error thrown when the attempts are used up
RateLimitMessage ==
    "Rate limit exceeded after " \o ToString(MAX_RETRIES)
        \o " attempts. API allows 5 requests per 10 seconds."

\* an Error: its message and the status of its response (NullNumber: the error
\* has no response)
Error(message, status) == [ message |-> message, status |-> status ]

\* the error axios rejects with: status 0 stands for no answer at all
AxiosError(status) ==
    IF status = 0 THEN Error("Network Error", NullNumber)
    ELSE Error("Request failed with status code " \o ToString(status), status)

\* the catch block of the request function of fetchCountryPage
PollutionFetchFailed(error) ==
    IF error.status # NullNumber
    THEN Error("Pollution fetch failed: " \o ToString(error.status) \o " - "
                   \o error.message, NullNumber)
    ELSE Error("Pollution fetch failed: " \o error.message, NullNumber)

\* the catch block of the login of ensureToken
AuthFailed(error) ==
    IF error.status # NullNumber
    THEN Error("Auth failed with status " \o ToString(error.status) \o ": "
                   \o error.message, NullNumber)
    ELSE Error("Auth failed: " \o error.message, NullNumber)

\* the error rateLimitedRequest gives up with
RateLimitExceeded == Error(RateLimitMessage, NullNumber)

\* error.response?.status === 429
IsThrottled(error) == error.status = 429

\* the backoff before the next attempt: the retry-after header in seconds when
\* there is one (NullNumber: none), else 2000 * 2^(attempt - 1), at most 30000
BackoffDelay(retryAfter, attempt) ==
    IF retryAfter # NullNumber /\ retryAfter # 0 THEN retryAfter * 1000
    ELSE Minimum(2000 * 2 ^ (attempt - 1), 30000)

\* a catch block that treats every error as throttling
AfterFailureRetryAll(error, attempt) ==
    IF attempt = MAX_RETRIES THEN "give up" ELSE "retry"

\* the catch block of rateLimitedRequest: what becomes of an attempt that
\* failed with this error
AfterFailure(error, attempt) ==
    IF IsThrottled(error)
    THEN IF attempt = MAX_RETRIES THEN "give up" ELSE "retry"
    ELSE "rethrow"

\* this.requestTimes.filter((time) => now - time < this.WINDOW_SIZE_MS)
WithinWindow(times, t) == SelectSeq(times, LAMBDA time : t - time < WINDOW_MS)

\* errorHandler: an Error that is no AppError is answered 500 with its message
errorHandler(error, kind, attempt) ==
    [ status |-> 500, message |-> error.message, kind |-> kind,
      attempt |-> attempt ]

\* the page handed back by fetchCountryPage
Fetched(page, from) == [ status |-> 200, page |-> page, from |-> from ]

\* the clock stops at MaxSeconds seconds
MaxSeconds == 11

\* the pages asked of the client are 1..MaxClientPage
MaxClientPage == 1

\* the time between two calls of the client
Pauses == { 4000 }

\* what the measurement source answers: a status (0: no answer), a
\* retry-after header, a token lifetime in seconds, a refresh token or none
Statuses == { 0, 200, 429, 500 }

RetryAfters == { NullNumber, 4 }

Lifetimes == { 6, 60 }

ClientInit ==
    /\ now = 0
    /\ upstream = [ country \in Countries |->
                      << << Row(T_Lodz, 5), Row(T_Opole, 5) >> >> ]
    /\ countryCache = <<>>
    /\ pollutionCache = <<>>
    /\ wikiCache = <<>>
    /\ req = Idle
    /\ last = NoResponse
    /\ faults = 0
    /\ token = ""
    /\ tokenExpiresAt = 0
    /\ refreshToken = ""
    /\ requestTimes = <<>>
    /\ call = Idle
    /\ sent = <<>>
    /\ answer = NullNumber
    /\ LruInit
    /\ PoolInit
    /\ PairInit

\* the part of the service that the client leaves alone
untouched ==
    << upstream, countryCache, wikiCache, req, faults, lruVars, poolVars,
       pairVars >>

\* an ensureToken that logs in whenever the token is not fresh
NextRequestLoginFirst ==
    IF token # "" /\ now < tokenExpiresAt - 5000 THEN "page" ELSE "login"

\* ensureToken up to its first request: which request comes next
NextRequest ==
    IF token # "" /\ now < tokenExpiresAt - 5000 THEN "page"
    ELSE IF refreshToken # "" THEN "refresh"
    ELSE "login"

\* fetchCountryPage answered from the page cache
FetchCached(page) ==
    /\ call.pc = "idle"
    /\ LET cached == getPollutionPage(pollutionCache, "PL", page,
                                      MAX_CITY_LIMIT, now)
       IN  /\ cached.value # Null
           /\ pollutionCache' = cached.cache
    /\ last' = Fetched(page, "cache")
    /\ UNCHANGED << now, token, tokenExpiresAt, refreshToken, requestTimes,
                    call, sent, answer >>
    /\ UNCHANGED untouched

\* fetchCountryPage on a miss of the page cache, up to the rate gate of its
\* first request; first keeps which request ensureToken began with
FetchStart(page) ==
    /\ call.pc = "idle"
    /\ LET cached == getPollutionPage(pollutionCache, "PL", page,
                                      MAX_CITY_LIMIT, now)
       IN  /\ cached.value = Null
           /\ pollutionCache' = cached.cache
    /\ call' = [ pc |-> "gate", page |-> page, kind |-> NextRequest,
                 first |-> NextRequest, attempt |-> 0 ]
    /\ UNCHANGED << now, last, token, tokenExpiresAt, refreshToken,
                    requestTimes, sent, answer >>
    /\ UNCHANGED untouched

\* rateLimitedRequest up to its loop: the window is pruned, the caller sleeps
\* when it is full, the time of the request is recorded
EnterGate ==
    /\ call.pc = "gate"
    /\ LET times    == WithinWindow(requestTimes, now)
           waitTime == WINDOW_MS - (now - Min(Range(times)))
           wakeUp   == IF Len(times) >= MAX_REQUESTS /\ waitTime > 0
                       THEN now + waitTime + 100
                       ELSE now
       IN  /\ wakeUp <= MaxSeconds * 1000
           /\ now' = wakeUp
           /\ requestTimes' = Append(times, wakeUp)
           /\ sent' = WithinWindow(sent, wakeUp)
    /\ call' = [ call EXCEPT !.pc = "attempt", !.attempt = 1 ]
    /\ UNCHANGED << pollutionCache, last, token, tokenExpiresAt, refreshToken,
                    answer >>
    /\ UNCHANGED untouched

\* an attempt of the page request that the measurement source answers with
\* status 200
PageFetched ==
    /\ call.pc = "attempt"
    /\ call.kind = "page"
    /\ answer' = 200
    /\ sent' = Append(sent, now)
    /\ pollutionCache' =
           setPollutionPage(pollutionCache, "PL", call.page, MAX_CITY_LIMIT,
                            PollutionResponse(upstream["PL"], call.page), now)
    /\ last' = Fetched(call.page, "source")
    /\ call' = Idle
    /\ UNCHANGED << now, token, tokenExpiresAt, refreshToken, requestTimes >>
    /\ UNCHANGED untouched

\* an attempt of login or refresh answered with status 200: the token is
\* held, and the page request comes next
TokenGranted(expiresIn, refresh) ==
    /\ call.pc = "attempt"
    /\ call.kind \in { "login", "refresh" }
    /\ answer' = 200
    /\ sent' = Append(sent, now)
    /\ token' = "token"
    /\ tokenExpiresAt' = now + expiresIn * 1000
    /\ refreshToken' = IF refresh THEN "refresh" ELSE refreshToken
    /\ call' = [ call EXCEPT !.pc = "gate", !.kind = "page", !.attempt = 0 ]
    /\ UNCHANGED << now, pollutionCache, last, requestTimes >>
    /\ UNCHANGED untouched

\* the error an attempt fails with, as rateLimitedRequest catches it: the
\* request function of fetchCountryPage wraps the error of axios
Caught(kind, status) ==
    IF kind = "page" THEN PollutionFetchFailed(AxiosError(status))
    ELSE AxiosError(status)

\* an attempt that fails with throttling while attempts are left: backoff,
\* then the next attempt, which does not pass the gate again
AttemptRetried(retryAfter) ==
    /\ call.pc = "attempt"
    /\ AfterFailure(Caught(call.kind, 429), call.attempt) = "retry"
    /\ answer' = 429
    /\ now + BackoffDelay(retryAfter, call.attempt) <= MaxSeconds * 1000
    /\ now' = now + BackoffDelay(retryAfter, call.attempt)
    /\ sent' = WithinWindow(Append(sent, now), now')
    /\ call' = [ call EXCEPT !.attempt = @ + 1 ]
    /\ UNCHANGED << pollutionCache, last, token, tokenExpiresAt, refreshToken,
                    requestTimes >>
    /\ UNCHANGED untouched

\* the error rateLimitedRequest throws for a failed attempt with no retry
Thrown(error, attempt) ==
    IF AfterFailure(error, attempt) = "give up" THEN RateLimitExceeded
    ELSE error

\* an attempt that fails with no retry: a failed refresh forgets the refresh
\* token and logs in, a failed login or page request fails the call, and
\* errorHandler answers
AttemptFailed(status) ==
    /\ call.pc = "attempt"
    /\ status # 200
    /\ AfterFailure(Caught(call.kind, status), call.attempt) # "retry"
    /\ answer' = status
    /\ sent' = Append(sent, now)
    /\ LET error == Thrown(Caught(call.kind, status), call.attempt)
       IN  IF call.kind = "refresh"
           THEN /\ refreshToken' = ""
                /\ call' = [ call EXCEPT !.pc = "gate", !.kind = "login",
                                         !.attempt = 0 ]
                /\ last' = last
           ELSE /\ refreshToken' = refreshToken
                /\ call' = Idle
                /\ last' = errorHandler(IF call.kind = "login"
                                        THEN AuthFailed(error) ELSE error,
                                        call.kind, call.attempt)
    /\ UNCHANGED << now, pollutionCache, token, tokenExpiresAt, requestTimes >>
    /\ UNCHANGED untouched

\* time passes between two calls of the client
Pause(d) ==
    /\ call.pc = "idle"
    /\ now + d <= MaxSeconds * 1000
    /\ now' = now + d
    /\ sent' = WithinWindow(sent, now + d)
    /\ UNCHANGED << pollutionCache, last, token, tokenExpiresAt, refreshToken,
                    requestTimes, call, answer >>
    /\ UNCHANGED untouched

ClientNext ==
    \/ \E page \in 1..MaxClientPage : FetchCached(page)
    \/ \E page \in 1..MaxClientPage : FetchStart(page)
    \/ EnterGate
    \/ PageFetched
    \/ \E expiresIn \in Lifetimes, refresh \in BOOLEAN :
          TokenGranted(expiresIn, refresh)
    \/ \E retryAfter \in RetryAfters : AttemptRetried(retryAfter)
    \/ \E status \in Statuses : AttemptFailed(status)
    \/ \E d \in Pauses : Pause(d)

SpecGate == ClientInit /\ [][ClientNext]_vars

-----------------------------------------------------------------------------
(* Properties of the measurement client                                    *)

\* C7: no more than 5 HTTP calls (login, refresh and page calls, re-issues
\* after a 429 included) are sent within any rolling window of 10 seconds
C7_AtMostFiveCallsPerWindow == Len(sent) <= MAX_REQUESTS

\* C8: a page fetch answered 429 is re-issued, and fails only after the
\* third throttled attempt, with the rate-limit-exceeded error
C8_ThrottledPageFetchRetried ==
    ( /\ call.pc = "idle"
      /\ last.status = 500
      /\ last.kind = "page"
      /\ answer = 429 )
        => /\ last.attempt = MAX_RETRIES
           /\ last.message = RateLimitMessage

\* C9: when the third attempt of a login, refresh or page call is answered
\* 429, the request ends with the rate-limit-exceeded message
C9_ExhaustedBudgetSurfaced ==
    [][ ( /\ call.pc = "attempt"
          /\ call.attempt = MAX_RETRIES
          /\ answer' = 429 )
            => /\ call'.pc = "idle"
               /\ last'.status = 500
               /\ last'.message = RateLimitMessage ]_vars

\* the held token has more than 5 seconds left
TokenFresh == token # "" /\ now < tokenExpiresAt - 5000

\* a step in which fetchCountryPage, past the page cache, calls ensureToken
TokenEnsured == call.pc = "idle" /\ call'.pc = "gate"

\* a step in which the refresh call fails for good
RefreshFailed ==
    /\ call.pc = "attempt"
    /\ call.kind = "refresh"
    /\ answer' # 200
    /\ call'.attempt # call.attempt + 1

\* C22: ensureToken sends no login and no refresh while the token has more
\* than 5 seconds left; otherwise it refreshes first when it holds a refresh
\* token; a failed refresh forgets the refresh token and logs in within the
\* same call; login is only attempted with no refresh token held
C22_AuthStateMachine ==
    [][ /\ (TokenEnsured /\ TokenFresh) => call'.kind = "page"
        /\ (TokenEnsured /\ ~TokenFresh /\ refreshToken # "") =>
              call'.kind = "refresh"
        /\ (TokenEnsured /\ ~TokenFresh /\ refreshToken = "") =>
              call'.kind = "login"
        /\ RefreshFailed =>
              /\ refreshToken' = ""
              /\ call'.pc = "gate"
              /\ call'.kind = "login"
        /\ (call'.pc # "idle" /\ call'.kind = "login") => refreshToken' = ""
        /\ (call'.pc # "idle" /\ call'.kind \in { "login", "refresh" }) =>
              ~(token' # "" /\ now' < tokenExpiresAt' - 5000)
      ]_vars

\* the login that follows a failed refresh is being attempted: the token
\* held has run out and the refresh token is forgotten
C22_Witness ==
    /\ call.pc = "attempt"
    /\ call.kind = "login"
    /\ call.first = "refresh"
    /\ token # ""
    /\ ~TokenFresh
    /\ refreshToken = ""
    /\ answer = 500

\* the page cache holds a live entry for the page
PageLive(cache, page, t) ==
    LET i == IndexOfKey(cache, << "PL", page, MAX_CITY_LIMIT >>)
    IN  i # 0 /\ t - cache[i].timestamp <= cache[i].ttl

\* a step in which the page request is answered 200 and the call returns
PageReturned ==
    /\ call.pc = "attempt"
    /\ call.kind = "page"
    /\ call'.pc = "idle"
    /\ answer' = 200

\* a step in which the call fails
CallFailed == call.pc = "attempt" /\ call'.pc = "idle" /\ answer' # 200

\* C23: fetchCountryPage with a live entry in the page cache returns it with
\* no auth call and no upstream request; on a miss the response of the
\* authenticated call that passed the rate gate is stored under (country,
\* page, limit) before the call returns; a failed call leaves the page cache
\* as it was
C23_PageCacheFirst ==
    [][ /\ \A page \in 1..MaxClientPage :
              ( /\ call.pc = "idle"
                /\ call'.pc = "idle"
                /\ PageLive(pollutionCache, page, now)
                /\ last' = Fetched(page, "cache")
                /\ now' = now ) =>
                    /\ call' = call
                    /\ sent' = sent
                    /\ requestTimes' = requestTimes
                    /\ token' = token
                    /\ refreshToken' = refreshToken
        /\ (call.pc = "idle" /\ call'.pc # "idle") =>
              ~PageLive(pollutionCache, call'.page, now)
        /\ PageReturned =>
              /\ token # ""
              /\ \E i \in 1..Len(requestTimes) : requestTimes[i] <= now
              /\ last' = Fetched(call.page, "source")
              /\ PageLive(pollutionCache', call.page, now)
              /\ LET i == IndexOfKey(pollutionCache',
                                     << "PL", call.page, MAX_CITY_LIMIT >>)
                 IN  /\ pollutionCache'[i].timestamp = now
                     /\ pollutionCache'[i].data =
                            PollutionResponse(upstream["PL"], call.page)
        /\ CallFailed => pollutionCache' = pollutionCache
      ]_vars

\* a page stored by an earlier call has been returned from the page cache
C23_Witness ==
    /\ call.pc = "idle"
    /\ last = Fetched(1, "cache")
    /\ PageLive(pollutionCache, 1, now)
    /\ answer = 200
    /\ now > 0

\* a step in which an attempt fails with a status other than 429 or with no
\* answer at all
FailedUnthrottled ==
    /\ call.pc = "attempt"
    /\ sent' # sent
    /\ answer' \in { 0, 500 }

\* the message of a failed call of this kind: it names the status when the
\* measurement source has answered
FailureMessage(kind, status) ==
    IF kind = "page"
    THEN IF status = 0 THEN "Pollution fetch failed: Network Error"
         ELSE "Pollution fetch failed: " \o ToString(status)
                  \o " - Request failed with status code " \o ToString(status)
    ELSE IF status = 0 THEN "Auth failed: Network Error"
         ELSE "Auth failed with status " \o ToString(status)
                  \o ": Request failed with status code " \o ToString(status)

\* C30: an attempt that fails with a status other than 429, or with no
\* answer, is not made again: rateLimitedRequest throws at once, and the
\* error that reaches the caller names the status when there was an answer
C30_UnthrottledFailureNotRetried ==
    [][ FailedUnthrottled =>
            /\ now' = now
            /\ call'.pc # "attempt"
            /\ call.kind = "refresh" => (call'.pc = "gate" /\ call'.kind = "login")
            /\ call.kind # "refresh" =>
                  /\ call'.pc = "idle"
                  /\ last'.status = 500
                  /\ last'.kind = call.kind
                  /\ last'.attempt = call.attempt
                  /\ last'.message = FailureMessage(call.kind, answer')
      ]_vars

\* the first attempt of a page request was answered 500 and the call has
\* failed with that status in its message
C30_Witness ==
    /\ call.pc = "idle"
    /\ answer = 500
    /\ last.status = 500
    /\ last.kind = "page"
    /\ last.attempt = 1
    /\ last.message = FailureMessage("page", 500)

-----------------------------------------------------------------------------
(* The knowledge client: getSummaries, call after call, on the description *)
(* cache                                                                   *)

\* a title of the measurement source with one diacritic only
T_LodzMixed == <<"L/","o","d","z">>

\* the titles asked of getSummaries
TitlePool == { T_LodzPl, T_LodzMixed, T_Lipno }

\* getSummaries is asked for at most MaxTitles titles at once
MaxTitles == 2

\* time passes at most MaxWikiTicks times per time to live
MaxWikiTicks == 1

\* the instants at which getSummaries is called
WikiInstants ==
    { k * (WIKI_FAILURE_TTL + 1) : k \in 0..MaxWikiTicks }
        \cup { k * (WIKIPEDIA_TTL + 1) : k \in 0..MaxWikiTicks }

\* a call of fetchBatch: the titles it asks for and whether it failed
Query(titles, failed) == [ titles |-> titles, failed |-> failed ]

\* the calls of fetchBatch after pass 1 has settled what it can
QueriesAfterPass1(failed2, first, p1) ==
    IF p1.unresolved = <<>> THEN << first >>
    ELSE << first, Query(AsciiFoldMap(p1.unresolved).keys, failed2) >>

\* the calls of fetchBatch given the answer r1 of pass 1
QueriesFetched(country, t, failed2, part, r1) ==
    IF r1.threw THEN << Query(part.uncached, TRUE) >>
    ELSE QueriesAfterPass1(failed2, Query(part.uncached, FALSE),
             SummariesPass1(part.uncached, country, r1, part.result,
                            part.cache, t))

\* the calls of fetchBatch given the partition of the titles by the cache
QueriesUncached(country, t, failed1, failed2, part) ==
    IF part.uncached = <<>> THEN <<>>
    ELSE QueriesFetched(country, t, failed2, part,
                        fetchBatch(part.uncached, << failed1 >>))

\* getSummaries asking a third time when the second query has failed
SummariesQueriesThrice(titles, country, cache, t, failed1, failed2) ==
    IF titles = <<>> THEN <<>>
    ELSE LET q == QueriesUncached(country, t, failed1, failed2,
                      CachePartition(titles,
                                     getWikiDescriptionsBatch(cache, titles, t)))
         IN  IF Len(q) = 2 /\ failed2 THEN Append(q, q[2]) ELSE q

\* the calls of fetchBatch that getSummaries(titles, country) makes, in order
SummariesQueries(titles, country, cache, t, failed1, failed2) ==
    IF titles = <<>> THEN <<>>
    ELSE QueriesUncached(country, t, failed1, failed2,
             CachePartition(titles,
                            getWikiDescriptionsBatch(cache, titles, t)))

\* what a call of getSummaries returned, and the queries it made
Summarized(titles, country, r, queries) ==
    [ status |-> 200, titles |-> titles, country |-> country,
      result |-> r.result, requests |-> r.requests, queries |-> queries ]

WikiInit ==
    /\ now = 0
    /\ upstream = [ country \in Countries |-> <<>> ]
    /\ countryCache = <<>>
    /\ pollutionCache = <<>>
    /\ wikiCache = <<>>
    /\ req = Idle
    /\ last = NoResponse
    /\ faults = 0
    /\ token = ""
    /\ tokenExpiresAt = 0
    /\ refreshToken = ""
    /\ requestTimes = <<>>
    /\ call = Idle
    /\ sent = <<>>
    /\ answer = NullNumber
    /\ LruInit
    /\ PoolInit
    /\ PairInit

\* WikipediaClient.getSummaries(titles, country)
GetSummaries(titles, country, failed1, failed2) ==
    /\ \E r \in { getSummaries(titles, country, wikiCache, now,
                               << failed1 >>, << failed2 >>) } :
      \E q \in { SummariesQueries(titles, country, wikiCache, now,
                                   failed1, failed2) } :
          /\ wikiCache' = r.cache
          /\ last' = Summarized(titles, country, r, q)
    /\ UNCHANGED << now, upstream, countryCache, pollutionCache, req, faults >>
    /\ UNCHANGED clientVars
    /\ UNCHANGED lruVars
    /\ UNCHANGED poolVars
    /\ UNCHANGED pairVars

\* time passes between two calls of getSummaries
WikiTick(t) ==
    /\ t > now
    /\ now' = t
    /\ last' = NoResponse
    /\ UNCHANGED << upstream, countryCache, pollutionCache, wikiCache, req,
                    faults >>
    /\ UNCHANGED clientVars
    /\ UNCHANGED lruVars
    /\ UNCHANGED poolVars
    /\ UNCHANGED pairVars

WikiNext ==
    \/ \E titles \in SeqsUpTo(TitlePool, MaxTitles), country \in Countries,
          failed1, failed2 \in BOOLEAN :
          GetSummaries(titles, country, failed1, failed2)
    \/ \E t \in WikiInstants : WikiTick(t)

SpecWiki == WikiInit /\ [][WikiNext]_vars

-----------------------------------------------------------------------------
(* Properties of the knowledge client                                      *)

\* C10: the map returned by getSummaries holds one entry for each title
\* asked for and no other key, and every value is null or a description
\* that is not empty
C10_OneEntryPerTitle ==
    ( last.status = 200 /\ "titles" \in DOMAIN last )
        => /\ { last.result.keys[i] : i \in 1..Len(last.result.keys) }
                = { last.titles[i] : i \in 1..Len(last.titles) }
           /\ \A i, j \in 1..Len(last.result.keys) :
                last.result.keys[i] = last.result.keys[j] => i = j
           /\ \A i \in 1..Len(last.result.val) :
                \/ last.result.val[i] = Null
                \/ /\ last.result.val[i] # Undefined
                   /\ last.result.val[i] # <<>>

\* the titles of a query that are the folding of title, country label
Requeries(query, title, country) ==
    { i \in 1..Len(query.titles) :
        query.titles[i]
          = asciiFold(title \o <<",", " ">> \o COUNTRY_LABELS(country), FALSE) }

\* the titles of an answered query whose page is a disambiguation page
Disambiguated(query) ==
    { query.titles[i] : i \in
        { j \in 1..Len(query.titles) :
            validatePageIsCity(getPage(query.titles[j],
                                       WikiQuery(query.titles))).reason
              = "disambiguation" } }

\* C11: getSummaries makes at most two batched queries, and a title whose
\* page of pass 1 is a disambiguation page is asked for once more, in pass 2
\* and only there, as "title, country label" (folded, like every title of
\* pass 2)
C11_DisambiguationRetriedOnce ==
    ( last.status = 200 /\ "queries" \in DOMAIN last )
        => /\ Len(last.queries) <= 2
           /\ ( Len(last.queries) >= 1 /\ ~last.queries[1].failed )
                => \A title \in Disambiguated(last.queries[1]) :
                      /\ Len(last.queries) = 2
                      /\ Cardinality(Requeries(last.queries[2], title,
                                               last.country)) = 1
                      /\ Requeries(last.queries[1], title, last.country) = {}

\* a call for Lipno has found a disambiguation page and asked again
C11_Witness ==
    /\ last.status = 200
    /\ "queries" \in DOMAIN last
    /\ Len(last.queries) = 2
    /\ T_Lipno \in Disambiguated(last.queries[1])
    /\ \E i \in 1..Len(last.queries[2].titles) :
          last.queries[2].titles[i] = T_LipnoPoland
    /\ MapGet(last.result, T_Lipno) # Null
    /\ MapGet(last.result, T_Lipno) # Undefined

\* the description cache holds null for the title, and the entry is alive
HoldsNull(cache, title, t) ==
    \E i \in 1..Len(cache) :
        /\ cache[i].key = title
        /\ cache[i].data = Null
        /\ t - cache[i].timestamp <= cache[i].ttl

\* the query asks for the title
Asks(query, title) ==
    \E i \in 1..Len(query.titles) : query.titles[i] = title

\* C12: a call of getSummaries for a title that the description cache holds
\* as null, within the time to live of the entry, returns null for it and
\* does not send it to the knowledge source
C12_NullServedFromCache ==
    [][ \A title \in TitlePool :
          ( /\ HoldsNull(wikiCache, title, now)
            /\ now' = now
            /\ last'.status = 200
            /\ "queries" \in DOMAIN last'
            /\ \E i \in 1..Len(last'.titles) : last'.titles[i] = title )
            => /\ MapGet(last'.result, title) = Null
               /\ \A k \in 1..Len(last'.queries) :
                     ~Asks(last'.queries[k], title) ]_vars

-----------------------------------------------------------------------------
(* Properties of the country cache                                         *)

\* the country cache holds an entry for the country
HasEntry(cache, country) == IndexOfKey(cache, country) # 0

\* the data of the entry of the country
EntryOf(cache, country) == cache[IndexOfKey(cache, country)].data

\* the entry of the country is there and has not expired at time t
Alive(cache, country, t) ==
    /\ HasEntry(cache, country)
    /\ t - cache[IndexOfKey(cache, country)].timestamp
          <= cache[IndexOfKey(cache, country)].ttl

\* C13: while a country cache entry lives, isComplete does not go back from
\* true to false
C13_CompleteStaysComplete ==
    [][ \A country \in Countries :
          ( /\ Alive(countryCache, country, now)
            /\ EntryOf(countryCache, country).isComplete
            /\ HasEntry(countryCache', country) )
            => EntryOf(countryCache', country).isComplete ]_vars

\* C14: while the country cache entry of a country is alive and marked
\* complete, no request for that country is about to ask the measurement
\* client for a page
C14_CompleteMeansNoMoreFetch ==
    req.pc = "loop"
        => ~( /\ Alive(countryCache, req.country, now)
              /\ EntryOf(countryCache, req.country).isComplete )

\* C15: while a country cache entry lives, no write lowers its lastPage
C15_LastPageNeverDecreases ==
    [][ \A country \in Countries :
          ( /\ Alive(countryCache, country, now)
            /\ HasEntry(countryCache', country) )
            => EntryOf(countryCache', country).lastPage
                  >= EntryOf(countryCache, country).lastPage ]_vars

\* a request that read one page and stored cities is followed by a request
\* that has stored the entry again at page 2
C15_Witness ==
    /\ last.status = 200
    /\ last.path = "loop"
    /\ last.pollCalls = 1
    /\ Len(last.all) >= 1
    /\ req.pc = "finish"
    /\ req.stored
    /\ Alive(countryCache, req.country, now)
    /\ EntryOf(countryCache, req.country).lastPage = 2

\* C16: a stored country cache entry whose totalPages is known has
\* lastPage <= totalPages, also when the measurement source reports 0 pages
C16_LastPageWithinTotalPages ==
    \A country \in Countries :
        ( /\ HasEntry(countryCache, country)
          /\ EntryOf(countryCache, country).totalPages # NullNumber )
            => EntryOf(countryCache, country).lastPage
                  <= EntryOf(countryCache, country).totalPages

\* a request has stored the entry of a country again whose source reports
\* 0 pages
C16_Witness ==
    /\ last.status = 200
    /\ last.path = "loop"
    /\ req.pc = "finish"
    /\ req.stored
    /\ req.country = last.country
    /\ HasEntry(countryCache, req.country)
    /\ EntryOf(countryCache, req.country).totalPages = 0

\* a step in which the page fetch of the loop throws
FetchFailed == req.pc = "loop" /\ req'.pc = "idle"

\* a step in which a request finds a stored entry and enters the loop
Resumed ==
    /\ req.pc = "idle"
    /\ req'.pc = "loop"
    /\ HasEntry(countryCache', req'.country)

\* C17: a failing page fetch is answered with the error and leaves the
\* country cache as it was; a request that finds a stored entry starts at
\* page lastPage + 1, and no turn of the loop asks for a page <= lastPage
C17_FailureKeepsProgress ==
    [][ /\ FetchFailed => (last'.status = 500 /\ countryCache' = countryCache)
        /\ Resumed =>
              req'.currentPage
                  = EntryOf(countryCache', req'.country).lastPage + 1
        /\ (req'.pc = "loop" /\ HasEntry(countryCache', req'.country)) =>
              req'.currentPage > EntryOf(countryCache', req'.country).lastPage
      ]_vars

\* the request after a failed one resumes at page 2 of a country whose
\* page 1 the failed request had stored
C17_Witness ==
    /\ last.status = 500
    /\ req.pc = "loop"
    /\ req.pollCalls = 0
    /\ req.currentPage = 2
    /\ HasEntry(countryCache, req.country)
    /\ EntryOf(countryCache, req.country).lastPage = 1
    /\ Len(EntryOf(countryCache, req.country).cities) >= 1

\* the country is supported, the page is 1 or more and the limit is within
\* API_LIMITS
ValidInput(r) ==
    /\ r.country \in SUPPORTED_COUNTRIES
    /\ r.page >= 1
    /\ r.limit \in MIN_CITY_LIMIT..MAX_CITY_LIMIT

\* C20: a request with an unsupported country, a page below 1 or a limit
\* outside 1..50 asks no page, asks no summary, writes no cache entry and is
\* not answered with cities
C20_InvalidInputRejected ==
    /\ (req.pc # "idle"
          /\ (req.pollCalls > 0 \/ req.wikiCalls > 0 \/ req.stored))
            => ValidInput(req)
    /\ last.status = 200 => ValidInput(last)

\* a turn of the loop in which getSummaries met a failing knowledge source
WikiDown ==
    /\ req.pc = "loop"
    /\ req'.pc # "idle"
    /\ req'.wikiFailures = req.wikiFailures + 1

\* the description cache holds a description for the title of the city
HoldsDescription(cache, city) ==
    /\ IndexOfKey(cache, WikiTitle(city.city)) # 0
    /\ cache[IndexOfKey(cache, WikiTitle(city.city))].data # Null

\* the description cache holds null for some title, written at time t with
\* the ttl of a failure
HoldsFailure(cache, t) ==
    \E i \in 1..Len(cache) :
        /\ cache[i].data = Null
        /\ cache[i].ttl = WIKI_FAILURE_TTL
        /\ cache[i].timestamp = t

\* C21: a failing knowledge source does not fail the request: the turn of the
\* loop goes on without an error response, the titles it could not resolve
\* are null, so their cities are not appended, and the request is answered
\* with 200
C21_WikiFailureDropsCities ==
    [][ /\ WikiDown =>
              /\ last' = last
              /\ \A i \in (Len(req.chosen) + 1)..Len(req'.chosen) :
                    HoldsDescription(wikiCache', req'.chosen[i])
        /\ (req.pc = "finish" /\ req.wikiFailures > 0 /\ req'.pc = "idle") =>
              last'.status = 200
      ]_vars

\* a request has come to its end after the first query of a page failed and
\* null was cached for the titles of that page
C21_Witness ==
    /\ req.pc = "finish"
    /\ req.wikiFailures >= 1
    /\ req.wikiCalls = 1
    /\ req.pollCalls >= 1
    /\ req.chosen = <<>>
    /\ HoldsFailure(wikiCache, now)

\* the city is among the cities, with the same name, pollution and
\* description
Holds(cities, city) ==
    \E j \in 1..Len(cities) :
        /\ cities[j].city = city.city
        /\ cities[j].country = city.country
        /\ cities[j].pollution = city.pollution
        /\ cities[j].description = city.description

\* C24: while the entry of a country lives, every city it holds is still
\* held, with the same name, pollution and description, after every step of
\* every later request
C24_StoredCitiesOnlyGrow ==
    [][ \A country \in Countries :
          ( /\ Alive(countryCache, country, now)
            /\ HasEntry(countryCache', country) ) =>
              /\ Len(EntryOf(countryCache', country).cities)
                    >= Len(EntryOf(countryCache, country).cities)
              /\ \A i \in 1..Len(EntryOf(countryCache, country).cities) :
                    Holds(EntryOf(countryCache', country).cities,
                          EntryOf(countryCache, country).cities[i])
      ]_vars

\* a request that began with the cities stored from page 1 has stored them
\* again together with those of page 2
C24_Witness ==
    /\ req.pc = "finish"
    /\ req.stored
    /\ req.pollCalls = 1
    /\ req.currentPage = 2
    /\ Alive(countryCache, req.country, now)
    /\ EntryOf(countryCache, req.country).lastPage = 2
    /\ Len(EntryOf(countryCache, req.country).cities) >= 2
    /\ \E i, j \in 1..Len(EntryOf(countryCache, req.country).cities) :
          /\ EntryOf(countryCache, req.country).cities[i].foundAt[1] = 1
          /\ EntryOf(countryCache, req.country).cities[j].foundAt[1] = 2

\* a turn of the loop that has fetched and classified page req.currentPage
PageProcessed == req.pc = "loop" /\ req'.pc # "idle"

\* C27: after a turn of the loop has processed page k, a page without
\* candidates included, the stored entry of the country has lastPage = k
C27_EntryFollowsEveryPage ==
    [][ PageProcessed =>
            /\ HasEntry(countryCache', req.country)
            /\ EntryOf(countryCache', req.country).lastPage = req.currentPage
      ]_vars

\* a turn of the loop: fetchCountryPage is asked for page req.currentPage
PageAsked == req.pc = "loop" /\ req' # req

\* C28: the loop asks for strictly increasing page numbers, asks for no page
\* while the accumulated cities reach offset + limit, asks for no page above
\* a known non-zero totalPages, and asks for at most totalPages - lastPage
\* pages per request
C28_LoopBounded ==
    [][ PageAsked =>
            /\ Len(req.chosen) < Offset(req.limit, req.page) + req.limit
            /\ Truthy(req.totalPages) => req.currentPage <= req.totalPages
            /\ req'.pc = "loop" => req'.currentPage > req.currentPage
            /\ (req'.pc # "idle" /\ Truthy(req'.totalPages)) =>
                  req'.turns <= req'.totalPages - (req'.firstPage - 1)
      ]_vars

\* the row of the measurement source the city was found in
RowOf(city) == upstream[city.country][city.foundAt[1]][city.foundAt[2]]

\* the pollution of the city is the finite number >= 0 of its row, and its
\* description is trimmed and not empty
WellFormed(city) ==
    /\ RowOf(city).pollution.number
    /\ RowOf(city).pollution.value >= 0
    /\ city.pollution = RowOf(city).pollution.value
    /\ city.description # <<>>
    /\ city.description = Trim(city.description)

\* C29: every city stored in a country cache entry or returned by a request
\* has a finite pollution >= 0 and a description that is not empty
C29_CitiesWellFormed ==
    /\ \A country \in Countries :
          HasEntry(countryCache, country) =>
              \A i \in 1..Len(EntryOf(countryCache, country).cities) :
                  WellFormed(EntryOf(countryCache, country).cities[i])
    /\ last.status = 200 =>
          \A i \in 1..Len(last.all) : WellFormed(last.all[i])

\* a request has read a page with a row whose pollution is no number and a
\* page with a city that has no description, and has returned a city
C29_Witness ==
    /\ last.status = 200
    /\ last.limit >= 1
    /\ last.pollCalls = 2
    /\ Len(last.cities) >= 1
    /\ \E i \in 1..Len(upstream[last.country][1]) :
          ~upstream[last.country][1][i].pollution.number
    /\ Len(last.all) < Len(upstream[last.country][2])

\* the names of the cities of a list
NamesOf(cities) == { cities[i].city : i \in 1..Len(cities) }

\* the response to page 1 is followed by the response to page 2 of the
\* same country with the same limit
PageTwoFollows ==
    /\ last.status = 200
    /\ last.page = 1
    /\ last.limit >= 1
    /\ Responded
    /\ last'.status = 200
    /\ last'.country = last.country
    /\ last'.limit = last.limit
    /\ last'.page = 2

\* C36: when pages 1, 2, ..., k are requested one after another for the
\* same country with the same limit, no city is returned on two different
\* pages, and no city of the accumulated set ranked before the end of page
\* k is missing from all of them; stated for k = 2
C36_PagesDisjointAndGapless ==
    [][ PageTwoFollows =>
          /\ NamesOf(last.cities) \cap NamesOf(last'.cities) = {}
          /\ \A i \in 1..Len(last'.all) :
                i <= 2 * last.limit
                    => last'.all[i].city
                          \in NamesOf(last.cities) \cup NamesOf(last'.cities)
      ]_vars

\* the same, when the request for page 2 added no city to the ranked set
C36_PagesDisjointOverSameSet ==
    [][ ( PageTwoFollows /\ last'.all = last.all ) =>
          /\ NamesOf(last.cities) \cap NamesOf(last'.cities) = {}
          /\ \A i \in 1..Len(last'.all) :
                i <= 2 * last.limit
                    => last'.all[i].city
                          \in NamesOf(last.cities) \cup NamesOf(last'.cities)
      ]_vars

-----------------------------------------------------------------------------
(* The aggregation service on a measurement source that gains pages        *)

\* the measurement source gains a page for the country between two requests
SourceGrows(country, page) ==
    /\ req.pc = "idle"
    /\ Len(upstream[country]) < MaxPages
    /\ upstream' = [ upstream EXCEPT ![country] = Append(@, page) ]
    /\ UNCHANGED << now, countryCache, pollutionCache, wikiCache, req, last,
                    faults >>
    /\ UNCHANGED clientVars
    /\ UNCHANGED lruVars
    /\ UNCHANGED poolVars
    /\ UNCHANGED pairVars

\* the measurement source holds nothing at first
SourceInit ==
    /\ ServiceInit
    /\ upstream = [ country \in Countries |-> <<>> ]

SourceNext ==
    \/ ServiceNext
    \/ \E country \in Countries, page \in PageChoices :
          SourceGrows(country, page)

SpecSource == SourceInit /\ [][SourceNext]_vars

-----------------------------------------------------------------------------
(* An LRUCache on its own: set, get and the passing of time                *)

\* new LRUCache(LruSize)
LruSize == 2

\* the ttl of a set is 1..MaxTtl
MaxTtl == 2

\* the clock runs from 0 to MaxClock
MaxClock == 3

\* at most MaxOps operations are made
MaxOps == 4

\* the values stored
LruData == { [ text |-> "x" ], [ text |-> "y" ] }

\* what an operation was, what it returned and the size it found
Operation(op, key, value, sizeBefore) ==
    [ op |-> op, key |-> key, value |-> value, sizeBefore |-> sizeBefore ]

\* cache.set(key, data, ttl)
LruSetOp(key, data, ttl) ==
    /\ ops < MaxOps
    /\ lru' = LRUSet(lru, key, data, ttl, now, LruSize)
    /\ written' = [ written EXCEPT ![key] = [ at |-> now, ttl |-> ttl ] ]
    /\ touched' = [ touched EXCEPT ![key] = ops + 1 ]
    /\ ops' = ops + 1
    /\ last' = Operation("set", key, Null, Len(lru))
    /\ UNCHANGED << now, upstream, countryCache, pollutionCache, wikiCache,
                    req, faults >>
    /\ UNCHANGED clientVars
    /\ UNCHANGED poolVars
    /\ UNCHANGED pairVars

\* cache.get(key)
LruGetOp(key) ==
    /\ ops < MaxOps
    /\ \E r \in { LRUGet(lru, key, now) } :
          /\ lru' = r.cache
          /\ touched' = IF r.value # Null
                        THEN [ touched EXCEPT ![key] = ops + 1 ]
                        ELSE touched
          /\ last' = Operation("get", key, r.value, Len(lru))
    /\ ops' = ops + 1
    /\ UNCHANGED << now, written, upstream, countryCache, pollutionCache,
                    wikiCache, req, faults >>
    /\ UNCHANGED clientVars
    /\ UNCHANGED poolVars
    /\ UNCHANGED pairVars

\* a millisecond passes
LruTick ==
    /\ now < MaxClock
    /\ now' = now + 1
    /\ last' = NoResponse
    /\ UNCHANGED << upstream, countryCache, pollutionCache, wikiCache, req,
                    faults >>
    /\ UNCHANGED clientVars
    /\ UNCHANGED lruVars
    /\ UNCHANGED poolVars
    /\ UNCHANGED pairVars

CacheInit == WikiInit

CacheNext ==
    \/ \E key \in LruKeys, data \in LruData, ttl \in 1..MaxTtl :
          LruSetOp(key, data, ttl)
    \/ \E key \in LruKeys : LruGetOp(key)
    \/ LruTick

SpecCache == CacheInit /\ [][CacheNext]_vars

\* the map holds the key
Stored(cache, key) == IndexOfKey(cache, key) # 0

\* the time since the key was last set exceeds the ttl of that set
Overdue(key) == now - written[key].at > written[key].ttl

\* a step that is cache.get(key)
IsGet(key) == ops' = ops + 1 /\ last'.op = "get" /\ last'.key = key

\* a step that is cache.set(key, ...)
IsSet(key) == ops' = ops + 1 /\ last'.op = "set" /\ last'.key = key

\* C18: get returns no value whose age since its last set exceeds the ttl of
\* that set, whatever was read in between; get on such an entry returns
\* absent and removes the entry, the size falling by one
C18_GetNeverReturnsExpired ==
    [][ \A key \in LruKeys :
          IsGet(key) =>
              /\ last'.value # Null => (Stored(lru, key) /\ ~Overdue(key))
              /\ (Stored(lru, key) /\ Overdue(key)) =>
                    /\ last'.value = Null
                    /\ ~Stored(lru', key)
                    /\ Len(lru') = Len(lru) - 1
      ]_vars

\* a get, after other operations, of a key set longer ago than its ttl has
\* returned absent and left the cache one entry smaller
C18_Witness ==
    /\ ops >= 3
    /\ last # NoResponse
    /\ last.op = "get"
    /\ written[last.key].ttl >= 1
    /\ Overdue(last.key)
    /\ last.value = Null
    /\ last.sizeBefore >= 1
    /\ Len(lru) = last.sizeBefore - 1

\* the keys the map holds
StoredKeys(cache) == { cache[i].key : i \in 1..Len(cache) }

\* the stored key whose last touch is the oldest
LeastRecentlyTouched(cache) ==
    CHOOSE key \in StoredKeys(cache) :
        \A key2 \in StoredKeys(cache) : touched[key] <= touched[key2]

\* C19: after a set the cache holds at most LruSize entries, and a set that
\* overflows removes exactly the entry least recently touched
C19_BoundedAndEvictsLeastRecent ==
    [][ \A key \in LruKeys :
          IsSet(key) =>
              /\ Len(lru') <= LruSize
              /\ (Len(lru) = LruSize /\ ~Stored(lru, key)) =>
                    StoredKeys(lru') =
                        (StoredKeys(lru) \ { LeastRecentlyTouched(lru) })
                            \cup { key }
      ]_vars

-----------------------------------------------------------------------------
(* classify on its own: a name and a locale are given, then classified     *)

W_Frankfurt == <<"F","r","a","n","k","f","u","r","t">>

W_am == <<"a","m">>

W_Main == <<"M","a","i","n">>

W_Unknown == <<"U","n","k","n","o","w","n">>

W_test == <<"t","e","s","t">>

W_Sample == <<"S","a","m","p","l","e">>

W_Digit == <<"3">>

\* the words the names are made of
WordPool ==
    { W_Frankfurt, W_am, W_Main, W_Unknown, W_test, W_Sample, W_Digit }

\* a name has at most MaxWords words
MaxWords == 3

RECURSIVE JoinWords(_)
\* words.join(" ")
JoinWords(words) ==
    IF words = <<>> THEN <<>>
    ELSE IF Len(words) = 1 THEN Head(words)
    ELSE Head(words) \o << " " >> \o JoinWords(Tail(words))

\* the names given to classify
RawNames == { JoinWords(words) : words \in SeqsUpTo(WordPool, MaxWords) }

\* a name and a locale to classify
Given(rawName, locale) == [ pc |-> "given", name |-> rawName, locale |-> locale ]

\* the verdict of classify on a name and a locale
Verdicted(rawName, locale, verdict) ==
    [ pc |-> "classified", name |-> rawName, locale |-> locale,
      verdict |-> verdict ]

ClassifyInit ==
    /\ now = 0
    /\ upstream = [ country \in Countries |-> <<>> ]
    /\ countryCache = <<>>
    /\ pollutionCache = <<>>
    /\ wikiCache = <<>>
    /\ req = Idle
    /\ last \in { Given(rawName, locale) :
                      rawName \in RawNames, locale \in SUPPORTED_COUNTRIES }
    /\ faults = 0
    /\ token = ""
    /\ tokenExpiresAt = 0
    /\ refreshToken = ""
    /\ requestTimes = <<>>
    /\ call = Idle
    /\ sent = <<>>
    /\ answer = NullNumber
    /\ LruInit
    /\ PoolInit
    /\ PairInit

\* classify({ name }, locale)
Classify ==
    /\ last.pc = "given"
    /\ last' = Verdicted(last.name, last.locale,
                         classify(last.name, last.locale))
    /\ UNCHANGED << now, upstream, countryCache, pollutionCache, wikiCache,
                    req, faults >>
    /\ UNCHANGED clientVars
    /\ UNCHANGED lruVars
    /\ UNCHANGED poolVars
    /\ UNCHANGED pairVars

ClassifyNext == Classify

SpecClassify == ClassifyInit /\ [][ClassifyNext]_vars

FrankfurtAmMain == JoinWords(<< W_Frankfurt, W_am, W_Main >>)

\* C25: classify({ name: "Frankfurt am Main" }, "DE") is keep with
\* confidence 0.9 and reason heuristic, the name unchanged
C25_FrankfurtAmMainKept ==
    ( /\ last.pc = "classified"
      /\ last.locale = "DE"
      /\ last.name = FrankfurtAmMain )
        => /\ last.verdict.verdict = "keep"
           /\ last.verdict.confidence = 9
           /\ last.verdict.reason = << "heuristic", <<>> >>
           /\ last.verdict.city = last.name

\* the words of the name are placeholders or numbers, one placeholder at
\* least
IsPlaceholderName(name) ==
    LET words == SplitOn(name, <<>>)
        IsPlaceholder(word) == ToLower(word) \in Range(PLACEHOLDER)
        IsNumber(word) ==
            word # <<>> /\ \A i \in 1..Len(word) : IsDigit(word[i])
    IN  /\ \A i \in 1..Len(words) :
              IsPlaceholder(words[i]) \/ IsNumber(words[i])
        /\ \E i \in 1..Len(words) : IsPlaceholder(words[i])

\* C26: a placeholder name, with or without digits, gets neither keep nor
\* salvage from classify
C26_PlaceholderNeverAccepted ==
    (last.pc = "classified" /\ IsPlaceholderName(last.name))
        => last.verdict.verdict = "reject"

-----------------------------------------------------------------------------
(* The knowledge client: retryRequest around one chunk request             *)

\* the answers of the knowledge source that carry an HTTP status
WikiStatuses == { 200, 404, 408, 429, 500, 502, 503, 504 }

\* the failures of the transport, which carry a code and no response
WikiCodes == { "ETIMEDOUT", "ECONNRESET", "ECONNABORTED" }

\* what the knowledge source does to one HTTP request
WikiOutcomes ==
    { [ status |-> s, code |-> "" ] : s \in WikiStatuses }
        \cup { [ status |-> 0, code |-> c ] : c \in WikiCodes }

\* isRetryableError(error)
isRetryableError(error) ==
    IF error.code # "" /\ error.code \in { "ETIMEDOUT", "ECONNRESET",
                                           "ECONNREFUSED", "ENETUNREACH",
                                           "ENOTFOUND", "EAI_AGAIN" }
    THEN TRUE
    ELSE IF error.status # 0
         THEN error.status \in { 408, 429, 502, 503, 504 }
         ELSE FALSE

\* axios.create({ validateStatus: (status) => status < 500 })
validateStatus(status) == status < 500

\* this.action.get resolves: there is a response and its status is valid
Resolves(outcome) == outcome.status # 0 /\ validateStatus(outcome.status)

\* WikipediaClient.MAX_RETRIES
WIKI_MAX_RETRIES == 3

\* WikipediaClient.RETRY_DELAY
RETRY_DELAY == 1000

\* this.RETRY_DELAY * Math.pow(2, attempt - 1)
RetryDelay(attempt) == RETRY_DELAY * (2 ^ (attempt - 1))

\* retryRequest(requestFn, context) is called: attempt = 1
RetryStart ==
    /\ retry = Idle
    /\ retry' = [ pc |-> "attempt", attempt |-> 1, outcomes |-> <<>>,
                  slept |-> <<>>, message |-> "" ]
    /\ UNCHANGED << serviceVars, clientVars, lruVars, pool, pairVars >>

\* one turn of the loop: requestFn() returns, or the catch block sleeps and
\* continues, or it breaks and the function throws
RetryAttempt(outcome) ==
    /\ retry.pc = "attempt"
    /\ retry' =
          LET seen == [ retry EXCEPT !.outcomes = Append(@, outcome) ]
          IN  IF Resolves(outcome)
              THEN [ seen EXCEPT !.pc = "returned" ]
              ELSE IF isRetryableError(outcome)
                      /\ retry.attempt < WIKI_MAX_RETRIES
                   THEN [ seen EXCEPT !.pc = "sleeping" ]
                   ELSE [ seen EXCEPT !.pc = "thrown",
                                      !.message = "Wikipedia API unavailable" ]
    /\ UNCHANGED << serviceVars, clientVars, lruVars, pool, pairVars >>

\* await this.sleep(delay); continue
RetrySleep ==
    /\ retry.pc = "sleeping"
    /\ retry' = [ retry EXCEPT !.pc = "attempt", !.attempt = @ + 1,
                               !.slept = Append(@, RetryDelay(retry.attempt)) ]
    /\ UNCHANGED << serviceVars, clientVars, lruVars, pool, pairVars >>

\* the caller has the result or the error
RetryDone ==
    /\ retry.pc \in { "returned", "thrown" }
    /\ retry' = Idle
    /\ UNCHANGED << serviceVars, clientVars, lruVars, pool, pairVars >>

RetryInit == WikiInit

RetryNext ==
    \/ RetryStart
    \/ \E outcome \in WikiOutcomes : RetryAttempt(outcome)
    \/ RetrySleep
    \/ RetryDone

SpecRetry == RetryInit /\ [][RetryNext]_vars

\* the failures the specification calls retryable: a timeout or connection
\* error, or HTTP 408, 429, 502, 503 or 504
ClaimedRetryable(outcome) ==
    \/ outcome.code \in { "ETIMEDOUT", "ECONNRESET" }
    \/ outcome.status \in { 408, 429, 502, 503, 504 }

\* a failure the client catches that the specification does not call retryable
ClaimedFinal(outcome) == ~Resolves(outcome) /\ ~ClaimedRetryable(outcome)

\* the chunk request is over
RetryOver == retry # Idle /\ retry.pc \in { "returned", "thrown" }

\* C31: a chunk request that receives a retryable failure (a timeout or
\* connection error, or HTTP 408, 429, 502, 503 or 504) is tried again, at
\* most 3 times in all with delays of 1 s then 2 s, and fails as "Wikipedia
\* API unavailable" only after the third failed attempt; a failure that is
\* not retryable is reported as unavailable after a single attempt
C31_RetryableFailureRetried ==
    RetryOver =>
        LET n == Len(retry.outcomes)
            o == retry.outcomes[n]
        IN  /\ n <= WIKI_MAX_RETRIES
            /\ \A i \in 1..(n - 1) :
                  /\ ClaimedRetryable(retry.outcomes[i])
                  /\ retry.slept[i] = RetryDelay(i)
            /\ ClaimedRetryable(o) =>
                  /\ n = WIKI_MAX_RETRIES
                  /\ retry.pc = "thrown"
                  /\ retry.message = "Wikipedia API unavailable"
            /\ ClaimedFinal(o) =>
                  /\ retry.pc = "thrown"
                  /\ retry.message = "Wikipedia API unavailable"

\* the same for the failures that reach the catch block of retryRequest: a
\* response with status 408 or 429 passes validateStatus and never does
C31_ThrownFailureRetried ==
    RetryOver =>
        LET n == Len(retry.outcomes)
            o == retry.outcomes[n]
        IN  /\ n <= WIKI_MAX_RETRIES
            /\ \A i \in 1..(n - 1) :
                  /\ ClaimedRetryable(retry.outcomes[i])
                  /\ ~Resolves(retry.outcomes[i])
                  /\ retry.slept[i] = RetryDelay(i)
            /\ (ClaimedRetryable(o) /\ ~Resolves(o)) =>
                  /\ n = WIKI_MAX_RETRIES
                  /\ retry.pc = "thrown"
                  /\ retry.message = "Wikipedia API unavailable"
            /\ ClaimedFinal(o) =>
                  /\ retry.pc = "thrown"
                  /\ retry.message = "Wikipedia API unavailable"

-----------------------------------------------------------------------------
(* The knowledge client: fetchBatch over the chunks of a title list        *)

\* fetchBatch is asked for 1..MaxPoolTitles titles
MaxPoolTitles == 61

\* the titles asked for: n different ones, numbered in their order
PoolTitles(n) == [ t \in 1..n |-> t ]

\* if (executing.length >= concurrency) with no test at all
PoolNeverFull(executing, concurrency) == FALSE

\* if (executing.length >= concurrency)
PoolFull(executing, concurrency) == Cardinality(executing) >= concurrency

\* the catch block of a worker with the error thrown again
ChunkRethrown(p, k) ==
    [ p EXCEPT !.stage[k] = "failed", !.executing = {}, !.pc = "thrown" ]

\* a worker is over: finally takes it out of executing, and a pending
\* Promise.race resolves
ChunkSettled(p, k, stage) ==
    [ p EXCEPT !.stage[k] = stage, !.executing = @ \ { k },
               !.pc = IF @ = "race" THEN "loop" ELSE @ ]

\* the catch block of a worker: the error is logged and the worker is over
ChunkCaught(p, k) == ChunkSettled(p, k, "failed")

\* fetchBatch(titles) is called: one request for a list of at most
\* MAX_TITLES titles, else the chunks and an empty pool
PoolStart(n) ==
    /\ pool = Idle
    /\ pool' =
          IF n <= MAX_TITLES
          THEN [ pc |-> "single", n |-> n, batches |-> << PoolTitles(n) >>,
                 i |-> 2, executing |-> { 1 }, stage |-> << "fetch" >>,
                 pages |-> {} ]
          ELSE LET batches == chunk(PoolTitles(n), MAX_TITLES)
               IN  [ pc |-> "loop", n |-> n, batches |-> batches, i |-> 1,
                     executing |-> {},
                     stage |-> [ k \in 1..Len(batches) |-> "new" ],
                     pages |-> {} ]
    /\ UNCHANGED << serviceVars, clientVars, lruVars, retry, pairVars >>

\* runInPool: worker(items[i], i) is called and sends its request; the
\* loop goes on, or waits for Promise.race when the pool is full
PoolSpawn ==
    /\ pool.pc = "loop"
    /\ pool.i <= Len(pool.batches)
    /\ pool' =
          LET executing == pool.executing \cup { pool.i }
          IN  [ pool EXCEPT !.stage[pool.i] = "fetch",
                            !.executing = executing,
                            !.i = @ + 1,
                            !.pc = IF PoolFull(executing, MAX_CONCURRENCY)
                                   THEN "race" ELSE "loop" ]
    /\ UNCHANGED << serviceVars, clientVars, lruVars, retry, pairVars >>

\* fetchBatchSingle(batch) returns: the worker pushes normalized and
\* redirects and waits a second
ChunkFetched(k) ==
    /\ pool.pc \in { "race", "all" }
    /\ pool.stage[k] = "fetch"
    /\ pool' = [ pool EXCEPT !.stage[k] = "delay" ]
    /\ UNCHANGED << serviceVars, clientVars, lruVars, retry, pairVars >>

\* the second is over: the worker merges its pages and is over
ChunkMerged(k) ==
    /\ pool.pc \in { "race", "all" }
    /\ pool.stage[k] = "delay"
    /\ pool' =
          [ ChunkSettled(pool, k, "done") EXCEPT
              !.pages = @ \cup { pool.batches[k][j] :
                                   j \in 1..Len(pool.batches[k]) } ]
    /\ UNCHANGED << serviceVars, clientVars, lruVars, retry, pairVars >>

\* fetchBatchSingle(batch) throws inside a worker
ChunkFailed(k) ==
    /\ pool.pc \in { "race", "all" }
    /\ pool.stage[k] = "fetch"
    /\ pool' = ChunkCaught(pool, k)
    /\ UNCHANGED << serviceVars, clientVars, lruVars, retry, pairVars >>

\* the loop of runInPool is over: await Promise.all(executing)
PoolAll ==
    /\ pool.pc = "loop"
    /\ pool.i > Len(pool.batches)
    /\ pool' = [ pool EXCEPT !.pc = "all" ]
    /\ UNCHANGED << serviceVars, clientVars, lruVars, retry, pairVars >>

\* Promise.all resolves and fetchBatch returns what the workers merged
PoolReturn ==
    /\ pool.pc = "all"
    /\ pool.executing = {}
    /\ pool' = [ pool EXCEPT !.pc = "returned" ]
    /\ UNCHANGED << serviceVars, clientVars, lruVars, retry, pairVars >>

\* return this.fetchBatchSingle(titles): the answer, or the error, of the
\* one request is that of fetchBatch
SingleAnswered(ok) ==
    /\ pool.pc = "single"
    /\ pool' = IF ok
               THEN [ pool EXCEPT !.pc = "returned", !.stage[1] = "done",
                                  !.executing = {},
                                  !.pages = { pool.batches[1][j] :
                                                j \in 1..Len(pool.batches[1]) } ]
               ELSE [ pool EXCEPT !.pc = "thrown", !.stage[1] = "failed",
                                  !.executing = {} ]
    /\ UNCHANGED << serviceVars, clientVars, lruVars, retry, pairVars >>

\* the caller has the answer or the error
PoolDone ==
    /\ pool.pc \in { "returned", "thrown" }
    /\ pool' = Idle
    /\ UNCHANGED << serviceVars, clientVars, lruVars, retry, pairVars >>

PoolNext ==
    \/ \E n \in 1..MaxPoolTitles : PoolStart(n)
    \/ PoolSpawn
    \/ \E k \in 1..Len(chunk(PoolTitles(MaxPoolTitles), MAX_TITLES)) :
          /\ pool # Idle
          /\ k <= Len(pool.batches)
          /\ \/ ChunkFetched(k)
             \/ ChunkMerged(k)
             \/ ChunkFailed(k)
    \/ PoolAll
    \/ PoolReturn
    \/ \E ok \in BOOLEAN : SingleAnswered(ok)
    \/ PoolDone

SpecPool == WikiInit /\ [][PoolNext]_vars

\* fetchBatch has split its title list
Split == pool # Idle /\ Len(pool.batches) > 1

\* the chunks whose request is in flight
InFlight == { k \in 1..Len(pool.batches) : pool.stage[k] = "fetch" }

\* C32: when fetchBatch splits a title list, every title belongs to exactly
\* one chunk, no chunk holds more than 20 titles, and at no moment are more
\* than 2 chunk requests in flight
C32_ChunksPartitionAndPoolBounded ==
    Split =>
        /\ \A t \in 1..pool.n :
              Cardinality({ << k, j >> \in (1..Len(pool.batches)) \X (1..20) :
                              /\ j <= Len(pool.batches[k])
                              /\ pool.batches[k][j] = t }) = 1
        /\ \A k \in 1..Len(pool.batches) : Len(pool.batches[k]) \in 1..20
        /\ Cardinality(InFlight) <= 2

\* two chunk requests are in flight and a third chunk waits for the pool
C32_Witness ==
    /\ Split
    /\ Cardinality(InFlight) = 2
    /\ pool.pc = "race"
    /\ pool.i <= Len(pool.batches)
    /\ Len(pool.batches[Len(pool.batches)]) < 20

\* the titles of the chunks in the given stage
TitlesIn(stage) ==
    { pool.batches[k][j] : << k, j >> \in
        { x \in (1..Len(pool.batches)) \X (1..MAX_TITLES) :
            x[2] <= Len(pool.batches[x[1]]) /\ pool.stage[x[1]] = stage } }

\* C33: in a multi-chunk fetchBatch the failure of one chunk request neither
\* cancels nor fails the other chunks: the step of the failure leaves every
\* other chunk as it was and throws nothing, fetchBatch never throws, and when
\* it returns every chunk has run to its end and the titles without page data
\* are those of the failed chunks only
C33_ChunkFailureIsolated ==
    [][ Split =>
          /\ pool'.pc # "thrown"
          /\ \A k \in 1..Len(pool.batches) :
                ( pool.stage[k] = "fetch" /\ pool'.stage[k] = "failed" )
                    => /\ \A o \in 1..Len(pool.batches) :
                            o # k => pool'.stage[o] = pool.stage[o]
                       /\ pool'.pages = pool.pages
                       /\ pool'.pc \in { "loop", "all" }
          /\ pool'.pc = "returned"
                => /\ \A k \in 1..Len(pool.batches) :
                        pool'.stage[k] \in { "done", "failed" }
                   /\ pool'.pages = TitlesIn("done")'
                   /\ ( 1..pool.n ) \ pool'.pages = TitlesIn("failed")' ]_vars

\* a split fetchBatch has returned with the first chunk failed and the pages
\* of the second chunk
C33_Witness ==
    /\ Split
    /\ pool.pc = "returned"
    /\ pool.stage[1] = "failed"
    /\ pool.stage[2] = "done"
    /\ pool.pages # {}

-----------------------------------------------------------------------------
(* The knowledge client: getSummaries over a title list that is split      *)

\* getSummaries is asked for MAX_TITLES..MaxSplitTitles titles
MaxSplitTitles == 21

SplitVowels == << "a", "e", "i", "o", "u" >>

\* a name the knowledge source has no article for
Filler(i) ==
    << "Q", SplitVowels[(i \div 5) + 1], SplitVowels[(i % 5) + 1] >>

RECURSIVE LongTitles(_)
\* n titles: Lodz, then names without an article
LongTitles(n) ==
    IF n = 1 THEN << T_Lodz >> ELSE Append(LongTitles(n - 1), Filler(n - 1))

\* which chunk requests of a pass fail: none, all, or the first
FailurePatterns ==
    { << FALSE, FALSE >>, << TRUE, TRUE >>, << TRUE, FALSE >> }

\* what a call of getSummaries returned, and which chunk requests failed
SummarizedSplit(titles, country, r, failed1, failed2) ==
    [ status |-> 200, titles |-> titles, country |-> country,
      result |-> r.result, requests |-> r.requests, failed1 |-> failed1,
      failed2 |-> failed2 ]

\* WikipediaClient.getSummaries(titles, country), chunk by chunk
GetSummariesSplit(titles, country, failed1, failed2) ==
    /\ \E r \in { getSummaries(titles, country, wikiCache, now,
                               failed1, failed2) } :
          /\ wikiCache' = r.cache
          /\ last' = SummarizedSplit(titles, country, r, failed1, failed2)
    /\ UNCHANGED << now, upstream, countryCache, pollutionCache, req, faults >>
    /\ UNCHANGED clientVars
    /\ UNCHANGED lruVars
    /\ UNCHANGED poolVars
    /\ UNCHANGED pairVars

SplitNext ==
    \/ \E n \in MAX_TITLES..MaxSplitTitles, country \in Countries,
          failed1, failed2 \in FailurePatterns :
          GetSummariesSplit(LongTitles(n), country, failed1, failed2)
    \/ \E t \in WikiInstants : WikiTick(t)

SpecSplit == WikiInit /\ [][SplitNext]_vars

\* the call of getSummaries just made found the knowledge source failing
\* for every query
TotalFailure ==
    /\ last.status = 200
    /\ "failed1" \in DOMAIN last
    /\ last.failed1 = << TRUE, TRUE >>
    /\ last.failed2 = << TRUE, TRUE >>

\* the description cache holds null for the title, set now with the ttl
CachedNullFor(title, ttl) ==
    \E i \in 1..Len(wikiCache) :
        /\ wikiCache[i].key = title
        /\ wikiCache[i].data = Null
        /\ wikiCache[i].timestamp = now
        /\ wikiCache[i].ttl = ttl

\* C34: when the knowledge source fails for every query of a getSummaries
\* call, every title still unresolved is cached as null with the 5-minute
\* ttl and never with the 24-hour ttl, whether the titles fit in one chunk
\* or are split into several
C34_TotalFailureCachedShort ==
    TotalFailure =>
        \A i \in 1..Len(last.titles) :
            MapGet(last.result, last.titles[i]) = Null
                => /\ CachedNullFor(last.titles[i], WIKI_FAILURE_TTL)
                   /\ ~CachedNullFor(last.titles[i], WIKIPEDIA_TTL)

\* the same for the title lists of one chunk
C34_TotalFailureCachedShortInOneChunk ==
    ( TotalFailure /\ Len(last.titles) <= MAX_TITLES ) =>
        \A i \in 1..Len(last.titles) :
            MapGet(last.result, last.titles[i]) = Null
                => /\ CachedNullFor(last.titles[i], WIKI_FAILURE_TTL)
                   /\ ~CachedNullFor(last.titles[i], WIKIPEDIA_TTL)

-----------------------------------------------------------------------------
(* validatePageIsCity alone, on the pages a query can answer with          *)

\* a page has at most MaxCategories categories
MaxCategories == 2

\* the categories of the pages: allow-listed, deny-listed and neither
CategoryPool ==
    { <<"Cities", "in", "Poland">>, <<"Capitals", "of", "Europe">>,
      <<"Districts", "in", "Warsaw">>, <<"Former", "airports", "in", "Poland">>,
      <<"Populated", "places">> }

\* the extracts of the pages: none, a city, a district, a sentence with both
\* head nouns, a second sentence with a head noun, and no head noun at all
ExtractPool ==
    { <<>>,
      <<"Lodz", "is", "a", "city", "in", "Poland", ".">>,
      <<"Okecie", "is", "a", "district", "of", "Warsaw", ".">>,
      <<"Praga", "is", "a", "city", "district", "of", "Warsaw", ".">>,
      <<"Kutno", "lies", "in", "Poland", ".", "It", "is", "a", "city", ".">>,
      <<"Kutno", "is", "a", "town", "in", "Poland", ".">> }

\* the pages validatePageIsCity is given
GivenPages ==
    { [ Page(T_Lodz, disambiguation, categories, extract)
          EXCEPT !.missing = missing, !.ns = ns ] :
        missing \in BOOLEAN, ns \in { 0, 4 }, disambiguation \in BOOLEAN,
        categories \in SeqsUpTo(CategoryPool, MaxCategories),
        extract \in ExtractPool }

\* a page to validate
PageGiven(p) == [ pc |-> "page", page |-> p ]

\* the verdict of validatePageIsCity on a page
PageValidated(p, verdict) ==
    [ pc |-> "validated", page |-> p, verdict |-> verdict ]

ValidateInit ==
    /\ now = 0
    /\ upstream = [ country \in Countries |-> <<>> ]
    /\ countryCache = <<>>
    /\ pollutionCache = <<>>
    /\ wikiCache = <<>>
    /\ req = Idle
    /\ last \in { PageGiven(p) : p \in GivenPages }
    /\ faults = 0
    /\ token = ""
    /\ tokenExpiresAt = 0
    /\ refreshToken = ""
    /\ requestTimes = <<>>
    /\ call = Idle
    /\ sent = <<>>
    /\ answer = NullNumber
    /\ LruInit
    /\ PoolInit
    /\ PairInit

\* validatePageIsCity(p)
Validate ==
    /\ last.pc = "page"
    /\ last' = PageValidated(last.page, validatePageIsCity(last.page))
    /\ UNCHANGED << now, upstream, countryCache, pollutionCache, wikiCache,
                    req, faults >>
    /\ UNCHANGED clientVars
    /\ UNCHANGED lruVars
    /\ UNCHANGED poolVars
    /\ UNCHANGED pairVars

ValidateNext == Validate

SpecValidate == ValidateInit /\ [][ValidateNext]_vars

\* the page has a category of the deny list, of the allow list
HasDenied(p) == \E i \in 1..Len(p.categories) : CatDenied(p.categories[i])

HasAllowed(p) == \E i \in 1..Len(p.categories) : CatAllowed(p.categories[i])

\* the first sentence of the page matches the positive, the negative pattern
PositiveIntro(p) == IntroMatches(firstSentence(Trim(p.extract)), POS_HEADS)

NegativeIntro(p) == IntroMatches(firstSentence(Trim(p.extract)), NEG_HEADS)

\* the page is an article that exists and is no disambiguation page
PlainArticle(p) == ~p.missing /\ p.ns = 0 /\ ~p.disambiguation

\* C35: the checks of validatePageIsCity have a fixed precedence: a missing
\* page, a page that is no article and a disambiguation page are invalid
\* whatever else they hold; a page with a deny-listed category is invalid
\* even with an allow-listed one; a category decides whatever the intro
\* says; only without a category signal the first sentence is used, and
\* there the positive pattern accepts before the negative one is consulted
C35_ValidationPrecedence ==
    last.pc = "validated" =>
        LET p == last.page
            v == last.verdict
        IN  /\ p.missing => v = [ ok |-> FALSE, reason |-> "missing" ]
            /\ ( ~p.missing /\ p.ns # 0 )
                  => v = [ ok |-> FALSE, reason |-> "not-article" ]
            /\ ( ~p.missing /\ p.ns = 0 /\ p.disambiguation )
                  => v = [ ok |-> FALSE, reason |-> "disambiguation" ]
            /\ ( PlainArticle(p) /\ HasDenied(p) )
                  => v = [ ok |-> FALSE, reason |-> "deny-category" ]
            /\ ( PlainArticle(p) /\ ~HasDenied(p) /\ HasAllowed(p) )
                  => v = [ ok |-> TRUE, reason |-> "allow-category" ]
            /\ ( PlainArticle(p) /\ ~HasDenied(p) /\ ~HasAllowed(p)
                    /\ Trim(p.extract) # <<>> /\ PositiveIntro(p) )
                  => v = [ ok |-> TRUE, reason |-> "intro-cityish" ]
            /\ ( PlainArticle(p) /\ ~HasDenied(p) /\ ~HasAllowed(p)
                    /\ ~PositiveIntro(p) )
                  => ~v.ok

\* a page with a category of each list and the intro of a city was found
\* invalid for its deny-listed category
C35_Witness ==
    /\ last.pc = "validated"
    /\ PlainArticle(last.page)
    /\ HasDenied(last.page)
    /\ HasAllowed(last.page)
    /\ PositiveIntro(last.page)
    /\ last.verdict.reason = "deny-category"

\* a page without a category signal whose first sentence matches both
\* patterns was accepted
C35_WitnessIntro ==
    /\ last.pc = "validated"
    /\ PlainArticle(last.page)
    /\ ~HasDenied(last.page)
    /\ ~HasAllowed(last.page)
    /\ PositiveIntro(last.page)
    /\ NegativeIntro(last.page)
    /\ last.verdict.ok

-----------------------------------------------------------------------------
(* The aggregation service: two requests in progress at once               *)

\* the request in progress is suspended at its await of fetchCountryPage and
\* the other one, or a new one, runs
Interleave ==
    /\ req.pc \in { "idle", "loop" }
    /\ other.pc \in { "idle", "loop" }
    /\ req.pc = "loop" \/ other.pc = "loop"
    /\ req' = other
    /\ other' = req
    /\ UNCHANGED << now, upstream, countryCache, pollutionCache, wikiCache,
                    last, faults >>
    /\ UNCHANGED clientVars
    /\ UNCHANGED lruVars
    /\ UNCHANGED poolVars
    /\ otherCall' = otherCall

PairNext ==
    \/ \E country \in Countries, limit \in 1..MaxLimit, page \in 1..MaxPage :
          Request(country, limit, page)
    \/ \E failed1, failed2 \in BOOLEAN : LoopCachedPage(failed1, failed2)
    \/ \E failed1, failed2 \in BOOLEAN : LoopFetchedPage(failed1, failed2)
    \/ Finish
    \/ Interleave

SpecPair == ServiceInit /\ [][PairNext]_vars

\* C37: when two requests for the same country are in progress at once and
\* interleave at their awaits, the country cache entry never regresses: every
\* write stores a superset of the cities stored before, a lastPage that is
\* not lower, and never isComplete = false over a stored true
C37_EntryNeverRegresses ==
    [][ \A country \in Countries :
          ( /\ Alive(countryCache, country, now)
            /\ HasEntry(countryCache', country) ) =>
              /\ \A i \in 1..Len(EntryOf(countryCache, country).cities) :
                    Holds(EntryOf(countryCache', country).cities,
                          EntryOf(countryCache, country).cities[i])
              /\ EntryOf(countryCache', country).lastPage
                    >= EntryOf(countryCache, country).lastPage
              /\ EntryOf(countryCache, country).isComplete
                    => EntryOf(countryCache', country).isComplete
      ]_vars

-----------------------------------------------------------------------------
(* The aggregation service after an outage of the knowledge source         *)

\* per country and row name: whether getSummaries, asked for the city of the
\* row alone on an empty description cache while the knowledge source
\* answers, returns a description for it
DescribedWhenReachable ==
    [ country \in Countries |->
        [ name \in RowNames |->
            LET v == Classified[country][name]
            IN  IF v.verdict \notin { "keep", "salvage" } THEN FALSE
                ELSE NewCities(<< Candidate(v.city, 0, country, 0, 0) >>,
                               getSummaries(<< WikiTitle(v.city) >>, country,
                                            <<>>, 0, << FALSE >>,
                                            << FALSE >>).result,
                               country) # <<>> ] ]

\* the list holds a city with the key of the row
HoldsKeyOf(cities, row, country) ==
    \E j \in 1..Len(cities) :
        cityKey(cities[j].city, cities[j].country)
            = cityKey(Verdict(row, country).city, country)

\* the rows of the pages 1..lastPage of the country that become candidates
\* and have a description when the knowledge source answers are all among
\* the cities
ProcessedRowsHeld(cities, country, lastPage) ==
    \A p \in 1..Minimum(lastPage, Len(upstream[country])) :
        \A i \in 1..Len(upstream[country][p]) :
            LET row == upstream[country][p][i]
            IN  (/\ IsCandidateNoDedup(row, Verdict(row, country), country, {})
                 /\ DescribedWhenReachable[country][row.name]
                 /\ ~HoldsNull(wikiCache, WikiTitle(Verdict(row, country).city),
                               now))
                => HoldsKeyOf(cities, row, country)

\* the step answers a request that began on a stored entry of the country,
\* ran its loop as far as it goes and met no failure of the knowledge source
LaterRequestAnswered ==
    /\ req.pc = "finish"
    /\ req'.pc = "idle"
    /\ req.firstPage > 1
    /\ req.limit >= 1
    /\ req.wikiFailures = 0

\* C40: a candidate that was dropped only because the knowledge source was
\* unreachable while its page was processed is looked up again: when a later
\* request for the country, begun while the entry lives and with the
\* knowledge source answering again and no null left in the description
\* cache for the city, is answered, the accumulated cities hold every city of
\* the processed pages that has a description.
C40_OutageDoesNotExclude ==
    [][ LaterRequestAnswered
        => ProcessedRowsHeld(last'.all, req.country, req.firstPage - 1) ]_vars

\* the same while the knowledge source has never failed
C40_NoOutageNoExclusion ==
    [][ (LaterRequestAnswered /\ faults = 0)
        => ProcessedRowsHeld(last'.all, req.country, req.firstPage - 1) ]_vars

-----------------------------------------------------------------------------
(* The measurement client: the age of the token a page request carries     *)

\* the GET /pollution request of the call is being sent: rateLimitedRequest
\* has passed its gate, or slept its backoff, and calls requestFn with the
\* token ensureToken returned
PageRequestSent == call.pc = "attempt" /\ call.kind = "page"

\* C39: at the moment a GET /pollution request is sent, the token it carries
\* has not passed its expiresAt, whether or not the rate gate made the call
\* sleep after ensureToken returned the token.
C39_TokenLiveWhenSent == PageRequestSent => now <= tokenExpiresAt

\* the same for the calls that the gate lets through without a sleep and that
\* are at their first attempt
C39_TokenLiveWhenSentAtOnce ==
    [][ (call.pc = "gate" /\ call.kind = "page" /\ now' = now
            /\ call'.pc = "attempt")
        => now' <= tokenExpiresAt ]_vars

-----------------------------------------------------------------------------
(* The measurement client: two fetchCountryPage calls in progress at once  *)

\* A fetchCountryPage call is suspended while its HTTP request is in flight
\* (the await of requestFn in rateLimitedRequest); the other call, not yet
\* begun or suspended in the same way, runs in its place.  Both calls work on
\* the fields of the one PolluApiClient.
SwapCalls ==
    /\ call.pc \in { "idle", "attempt" }
    /\ otherCall.pc \in { "idle", "attempt" }
    /\ call.pc = "attempt" \/ otherCall.pc = "attempt"
    /\ call' = otherCall
    /\ otherCall' = call
    /\ UNCHANGED << now, pollutionCache, last, token, tokenExpiresAt,
                    refreshToken, requestTimes, sent, answer >>
    /\ UNCHANGED << upstream, countryCache, wikiCache, req, faults, other >>
    /\ UNCHANGED lruVars
    /\ UNCHANGED poolVars

\* the answers of the measurement source while two calls are in progress: no
\* throttling, so that no call sleeps in a backoff
CallStatuses == { 0, 200, 500 }

CallsNext ==
    \/ \E page \in 1..MaxClientPage : FetchCached(page)
    \/ \E page \in 1..MaxClientPage : FetchStart(page)
    \/ EnterGate
    \/ PageFetched
    \/ \E expiresIn \in Lifetimes, refresh \in BOOLEAN :
          TokenGranted(expiresIn, refresh)
    \/ \E status \in CallStatuses : AttemptFailed(status)
    \/ \E d \in Pauses : Pause(d)
    \/ SwapCalls

SpecCalls == ClientInit /\ [][CallsNext]_vars

\* the login or refresh request of this call is in flight
AuthInFlight(c) == c.pc = "attempt" /\ c.kind \in { "login", "refresh" }

\* the refresh request of this call is in flight: it carries the refresh token
\* the client held when it was sent
RefreshInFlight(c) == c.pc = "attempt" /\ c.kind = "refresh"

\* C38: with two fetchCountryPage calls in progress on one client, at most one
\* login or refresh request is in flight at any time; in particular no two
\* refresh requests are in flight together, which would carry the same
\* refresh token, the token changing only when one of them is answered.
C38_OneAuthRequestInFlight ==
    ~ (AuthInFlight(call) /\ AuthInFlight(otherCall))

\* the part of C38 about the refresh token alone
C38_RefreshTokenSentOnce ==
    ~ (RefreshInFlight(call) /\ RefreshInFlight(otherCall))

====
